---- MODULE Spec2Model ----
(***************************************************************************)
(* A model of the RAG backend's two pipelines and their guardrails:        *)
(*   - the ingestion job store and the ingestion orchestrator              *)
(*     (backend/core/ingestion_store.py, ingestion_models.py,              *)
(*      ingestion_orchestrator.py, embedding_service.py);                  *)
(*   - the query pipeline under its global deadline                        *)
(*     (backend/core/guardrails.py, generation_services.py,                *)
(*      query_services.py, backend/api/endpoints.py);                      *)
(*   - the embedding provider's retry loop                                 *)
(*     (backend/core/embedding_provider.py).                               *)
(*   - the query embedding cache (backend/core/query_cache.py);            *)
(*   - the per-user rate limiter (backend/core/rate_limiter.py);           *)
(*   - the tiered PDF extraction (backend/core/extractors/pdf_pipeline.py);*)
(*   - the in-memory vector store and its similarity search                *)
(*     (backend/core/vector_storage.py, embedding_service.py);             *)
(*   - the prompt assembly (backend/core/prompt_services.py);              *)
(*   - the answer post-processing (backend/core/generation_services.py);   *)
(*   - the debug artifacts (backend/core/artifact_logger.py,               *)
(*     artifact_storage.py, backend/api/endpoints.py);                     *)
(*   - the error responses of /api/query (backend/api/error_handler.py,    *)
(*     backend/core/exceptions.py, backend/api/endpoints.py);              *)
(*   - the sliding window chunker                                          *)
(*     (backend/core/chunkers/sliding_window_chunker.py);                  *)
(*   - the serving of /api/query over the shared store and cache           *)
(*     (backend/api/endpoints.py, generation_services.py).                 *)
(* Each subsystem has its own specification over the shared variables:     *)
(* Spec (ingestion), SpecQuery (query deadline), SpecRetry (retry loop),   *)
(* SpecCache, SpecLimiter, SpecPdf, SpecStore, SpecDedup, SpecSearch,      *)
(* SpecPrompt, SpecAnswer, SpecArtifact, SpecError, SpecChunker, SpecServe.*)
(***************************************************************************)
EXTENDS Integers, Sequences, FiniteSets, TLC

VARIABLES
    jobs,               \* IngestionJobStore._jobs: ingestion_id -> IngestionJob
    postgres_client,    \* IngestionOrchestrator._postgres_client is not None
    embedding_service,  \* IngestionOrchestrator._embedding_service is not None
    pc,                 \* position of the current ingest_and_store call
    run,                \* locals of the current ingest_and_store call
    stage_log,          \* stages started by the current call, in start order
    stage_result,       \* stage -> "none" | "running" | "ok" | "failed"
    ret,                \* how the last ingest_and_store call ended
    last_progress       \* progress_percent seen by the previous status read

ingestVars == <<jobs, postgres_client, embedding_service, pc, run, stage_log,
                stage_result, ret, last_progress>>

VARIABLES
    qpc,        \* position of the current /api/query request
    qnow,       \* wall clock (time.time()), in ticks
    tm,         \* the request's TimeoutManager
    qlog,       \* pipeline stages begun, each with the time remaining then
    qerr,       \* the error the request ended with
    qresp       \* the time of the response, in ticks (-1: none yet)

queryVars == <<qpc, qnow, tm, qlog, qerr, qresp>>

VARIABLES
    rcfg,       \* BatchEmbeddingConfig of the provider
    rpc,        \* position of the current _embed_with_retries call
    attempts,   \* local: attempts
    delay,      \* local: delay
    calls,      \* outcomes of the provider calls (_call_api) made so far
    sleeps      \* the delays passed to asyncio.sleep so far

retryVars == <<rcfg, rpc, attempts, delay, calls, sleeps>>

VARIABLES
    cstore,     \* QueryEmbeddingCache._store: query_text -> _CacheEntry
    cnow,       \* QueryEmbeddingCache._now(), in ticks
    creq,       \* the QueryOrchestrator.query calls in progress
    clog        \* cache reads (with the provider call made) and writes, in order

cacheVars == <<cstore, cnow, creq, clog>>

VARIABLES
    user_requests,  \* RateLimiter.user_requests: user_id -> timestamps
    lnow,           \* datetime.now(timezone.utc), in ticks
    lcfg,           \* the limit and window_seconds the callers pass
    llog            \* the is_allowed calls made so far and what they returned

limiterVars == <<user_requests, lnow, lcfg, llog>>

VARIABLES
    pcfg,       \* PDFPipelineConfig: tierN_enabled and auto_fallback
    precommended,   \* analysis.recommended_tier of the PDF
    ppc,        \* position of the current PDFExtractionPipeline.extract call
    ptarget,    \* local: target_tier
    porder,     \* the fallback tiers not yet attempted, in order
    pattempts,  \* the tiers attempted so far, each with its outcome
    pres        \* how the extract call ended

pdfVars == <<pcfg, precommended, ppc, ptarget, porder, pattempts, pres>>

VARIABLES
    vstore,     \* InMemoryVectorDBStorageLayer._store, in insertion order
    vnext,      \* the next fresh embedding_id (uuid4)
    ecall,      \* the current or last EmbeddingService.embed_and_store call
    sres        \* the last search_by_similarity call and what it returned

storeVars == <<vstore, vnext, ecall, sres>>

VARIABLES
    preq,       \* the PromptConstructionRequest and the budget it leaves
    presp       \* the PromptConstructionResponse of construct_prompt

promptVars == <<preq, presp>>

VARIABLES
    areq,       \* the arguments of AnswerProcessor.process
    ares        \* what AnswerProcessor.process returned

answerVars == <<areq, ares>>

VARIABLES
    acfg,       \* DEBUG_RAG, ENVIRONMENT and DEBUG_ARTIFACTS_TOKEN
    atrace,     \* the trace_id of each query being served
    apos,       \* how many of its artifacts each query has logged
    alogged,    \* per trace_id, the artifacts in the order they were logged
    aready,     \* the event loop's queue of _store tasks not yet run
    artifacts,  \* InMemoryArtifactStorage._artifacts
    dres        \* the response of the last /api/debug/artifacts request

artifactVars == <<acfg, atrace, apos, alogged, aready, artifacts, dres>>

VARIABLES
    epc,        \* position of the /api/query request in query_endpoint
    ereq,       \* the request payload
    eraised,    \* the exception raised while serving the request, if any
    eresp       \* the response the client receives

errorVars == <<epc, ereq, eraised, eresp>>

VARIABLES
    kreq,       \* the arguments of a SlidingWindowChunker.chunk call
    kres        \* what the call returned, or that it raised

chunkerVars == <<kreq, kres>>

\* Serving one /api/query request through the generation orchestrator
VARIABLES
    qserve,     \* the query_endpoint coroutine: where it is and its locals
    qresponse   \* the QueryResponse it returned

serveVars == <<qserve, qresponse>>

vars == <<ingestVars, queryVars, retryVars, cacheVars, limiterVars, pdfVars, storeVars, promptVars, answerVars, artifactVars, errorVars, chunkerVars, serveVars>>

\* what each subsystem leaves alone: the variables of the others
notIngest == <<queryVars, retryVars, cacheVars, limiterVars, pdfVars, storeVars, promptVars, answerVars, artifactVars, errorVars, chunkerVars, serveVars>>
notQuery == <<ingestVars, retryVars, cacheVars, limiterVars, pdfVars, storeVars, promptVars, answerVars, artifactVars, errorVars, chunkerVars, serveVars>>
notRetry == <<ingestVars, queryVars, cacheVars, limiterVars, pdfVars, storeVars, promptVars, answerVars, artifactVars, errorVars, chunkerVars, serveVars>>
notCache == <<ingestVars, queryVars, retryVars, limiterVars, pdfVars, storeVars, promptVars, answerVars, artifactVars, errorVars, chunkerVars, serveVars>>
notLimiter == <<ingestVars, queryVars, retryVars, cacheVars, pdfVars, storeVars, promptVars, answerVars, artifactVars, errorVars, chunkerVars, serveVars>>
notPdf == <<ingestVars, queryVars, retryVars, cacheVars, limiterVars, storeVars, promptVars, answerVars, artifactVars, errorVars, chunkerVars, serveVars>>
notStore == <<ingestVars, queryVars, retryVars, cacheVars, limiterVars, pdfVars, promptVars, answerVars, artifactVars, errorVars, chunkerVars, serveVars>>
notPrompt == <<ingestVars, queryVars, retryVars, cacheVars, limiterVars, pdfVars, storeVars, answerVars, artifactVars, errorVars, chunkerVars, serveVars>>
notAnswer == <<ingestVars, queryVars, retryVars, cacheVars, limiterVars, pdfVars, storeVars, promptVars, artifactVars, errorVars, chunkerVars, serveVars>>
notArtifact == <<ingestVars, queryVars, retryVars, cacheVars, limiterVars, pdfVars, storeVars, promptVars, answerVars, errorVars, chunkerVars, serveVars>>
notError == <<ingestVars, queryVars, retryVars, cacheVars, limiterVars, pdfVars, storeVars, promptVars, answerVars, artifactVars, chunkerVars, serveVars>>
notChunker == <<ingestVars, queryVars, retryVars, cacheVars, limiterVars, pdfVars, storeVars, promptVars, answerVars, artifactVars, errorVars, serveVars>>
notServe == <<ingestVars, queryVars, retryVars, cacheVars, limiterVars, pdfVars, storeVars, promptVars, answerVars, artifactVars, errorVars, chunkerVars>>
\* what serving a query leaves alone besides the store and the cache it shares
notServeShared == <<ingestVars, queryVars, retryVars, limiterVars, pdfVars, promptVars, answerVars, artifactVars, errorVars, chunkerVars>>

None == "None"

-----------------------------------------------------------------------------
(* Bounds of the model.                                                    *)

MaxChunks == 1      \* chunks a chunking run produces
TicksPerSec == 2    \* clock ticks in one second
MaxStageTicks == 3  \* longest time one query stage takes, in ticks
EpsilonTicks == 1   \* the "small epsilon" allowed past the deadline, in ticks
MaxRetriesCfg == 3  \* largest max_retries the provider is configured with
CacheTtlTicks == 2  \* the cache's ttl_seconds, in ticks
MaxCacheClock == 3  \* the cache model's clock stops here
MaxQueries == 3     \* cache reads in one behaviour
MaxLimit == 2       \* largest limit passed to is_allowed
MaxWindow == 2      \* largest window_seconds passed to is_allowed
MaxLimiterClock == 5    \* the rate limiter model's clock stops here, in ticks
MaxLimiterCalls == 5    \* is_allowed calls in one behaviour
MaxBatch == 2       \* chunks passed to one embed_and_store call
MaxStored == 2      \* embeddings the vector store holds
MaxSearched == 2    \* embeddings in a store that is searched
MaxTopK == 2        \* largest top_k of a search
MaxPromptChunks == 2    \* retrieved chunks of one prompt request
MaxContentWords == 2    \* words of a chunk's content
MaxBudget == 12     \* largest token budget left for the context
MaxSource == 3      \* largest N of a [Source N] marker in an answer
MaxAnswerLen == 2   \* pieces of an answer
MaxLogged == 5      \* artifacts logged in one behaviour, over all queries
MaxTextLen == 4     \* characters of a text to chunk
MaxChunkSize == 3   \* largest chunk_size

-----------------------------------------------------------------------------
(* Ingestion: data model (ingestion_models.py).                            *)

JobIds == {"j1"}

IngestionStatus == {"pending", "processing", "completed", "failed"}

Stages == <<"extraction", "chunking", "storage", "embedding">>

StageNames == {Stages[i] : i \in 1..Len(Stages)}

StageIndex(s) == CHOOSE i \in 1..Len(Stages) : Stages[i] = s

\* f"{stage}_duration_ms"
DurationKey(stage) ==
    CASE stage = "extraction" -> "extraction_duration_ms"
      [] stage = "chunking" -> "chunking_duration_ms"
      [] stage = "embedding" -> "embedding_duration_ms"
      [] stage = "storage" -> "storage_duration_ms"
      [] OTHER -> "other_duration_ms"

completed_keys ==
    {"extraction_duration_ms", "chunking_duration_ms",
     "embedding_duration_ms", "storage_duration_ms"}

Min(a, b) == IF a <= b THEN a ELSE b

Max(a, b) == IF a >= b THEN a ELSE b

\* A capped-at-100 variant of the processing estimate.
compute_processing_progress_cap100(job) ==
    Min(100, 25 + Cardinality(completed_keys \cap job.metrics) * 20)

\* IngestionJob._compute_processing_progress
compute_processing_progress(job) ==
    Min(99, 25 + Cardinality(completed_keys \cap job.metrics) * 20)

\* IngestionJob.progress_percent
progress_percent(job) ==
    CASE job.status = "pending" -> 0
      [] job.status = "processing" -> compute_processing_progress(job)
      [] job.status = "completed" -> 100
      [] job.status = "failed" -> Max(50, compute_processing_progress(job))
      [] OTHER -> 0

\* IngestionJobStore.create_job: the IngestionJob it builds
NewJob ==
    [status |-> "pending", error_message |-> None, error_stage |-> None,
     started_at |-> None, completed_at |-> None, metrics |-> {},
     extracted_document |-> FALSE, chunks |-> 0, embeddings |-> 0]

-----------------------------------------------------------------------------
(* Ingestion: the job store (ingestion_store.py).                          *)

\* A variant of update_status that drops a falsy error_message.
update_status_truthy(job, status, error_message, error_stage) ==
    [job EXCEPT
        !.status = status,
        !.error_message =
            IF error_message # None /\ error_message # "" THEN error_message ELSE @,
        !.error_stage = IF error_stage # None THEN error_stage ELSE @,
        !.started_at = IF status = "processing" /\ @ = None THEN "ts" ELSE @,
        !.completed_at = IF status \in {"completed", "failed"} THEN "ts" ELSE @]

\* IngestionJobStore.update_status, on the job it found
update_status(job, status, error_message, error_stage) ==
    [job EXCEPT
        !.status = status,
        !.error_message = IF error_message # None THEN error_message ELSE @,
        !.error_stage = IF error_stage # None THEN error_stage ELSE @,
        !.started_at = IF status = "processing" /\ @ = None THEN "ts" ELSE @,
        !.completed_at = IF status \in {"completed", "failed"} THEN "ts" ELSE @]

\* IngestionJobStore.update_metrics, on the job it found; metrics are kept
\* as the set of their keys
update_metrics(job, stage, extra_metrics) ==
    [job EXCEPT
        !.metrics = @ \cup {DurationKey(stage)} \cup extra_metrics
                      \cup {"total_duration_ms"}]

-----------------------------------------------------------------------------
(* Ingestion: EmbeddingService.embed_and_store (embedding_service.py), as  *)
(* the orchestrator calls it (skip_duplicate_content=True).  dups is the   *)
(* number of chunks whose content the store already holds; provider is the *)
(* outcome of BatchEmbeddingProvider.embed_batch_with_metadata and text    *)
(* the text of the exception it raised.                                    *)

ProviderOutcomes == {"ok", "EmbeddingProviderError", "Exception"}

\* EmbeddingService.embed_and_store
embed_and_store(chunks, dups, provider, text) ==
    IF chunks = 0
    THEN \* total_inputs == 0
         [raised |-> FALSE, text |-> None, embeddings |-> 0, failed |-> 0,
          api_calls |-> 0, quality_metrics |-> {}]
    ELSE IF chunks - dups = 0
    THEN \* not inputs: every chunk was a duplicate
         [raised |-> FALSE, text |-> None, embeddings |-> 0, failed |-> 0,
          api_calls |-> 0,
          quality_metrics |-> {"tokens_used_estimate", "duplicates_skipped"}]
    ELSE IF provider = "EmbeddingProviderError"
    THEN \* except EmbeddingProviderError: every input a failure, result returned
         [raised |-> FALSE, text |-> None, embeddings |-> 0,
          failed |-> chunks - dups, api_calls |-> 1,
          quality_metrics |-> {"tokens_used_estimate", "duplicates_skipped"}]
    ELSE IF provider = "Exception"
    THEN \* any other exception propagates to the caller
         [raised |-> TRUE, text |-> text, embeddings |-> 0, failed |-> 0,
          api_calls |-> 1, quality_metrics |-> {}]
    ELSE [raised |-> FALSE, text |-> None, embeddings |-> chunks - dups,
          failed |-> 0, api_calls |-> 1,
          quality_metrics |-> {"tokens_used_estimate", "duplicates_skipped",
                               "avg_embedding_quality_score", "valid_embeddings"}]

-----------------------------------------------------------------------------
(* Ingestion: IngestionOrchestrator.ingest_and_store                       *)
(* (ingestion_orchestrator.py), one action per stage of the call.          *)

ErrorTexts == {"boom", ""}

NoFilesText == "No files provided for ingestion"

NoRun == [job_id |-> None, files |-> 0, provider_failed |-> FALSE]

NoRet == [kind |-> "none", exc |-> None, status |-> None, error_stage |-> None,
          error_message |-> None, raised_stage |-> None, raised_text |-> None,
          provider_failed |-> FALSE]

NoStageResult == [s \in StageNames |-> "none"]

\* `return job`: the record the caller receives is the stored job
Returned(job, stage, text) ==
    [kind |-> "returned", exc |-> None, status |-> job.status,
     error_stage |-> job.error_stage, error_message |-> job.error_message,
     raised_stage |-> stage, raised_text |-> text,
     provider_failed |-> run.provider_failed]

\* the call ends by an exception leaving ingest_and_store
Raised(exc, job) ==
    [kind |-> "raised", exc |-> exc, status |-> job.status,
     error_stage |-> job.error_stage, error_message |-> job.error_message,
     raised_stage |-> None, raised_text |-> None,
     provider_failed |-> run.provider_failed]

\* except Exception as exc: update_status(FAILED, str(exc), stage); return job
FailStage(j, stage, text) ==
    LET job == update_status(jobs[j], "failed", text, stage)
    IN  /\ jobs' = [jobs EXCEPT ![j] = job]
        /\ stage_result' = [stage_result EXCEPT ![stage] = "failed"]
        /\ ret' = Returned(job, stage, text)
        /\ pc' = "idle"

\* lines 67-97: look the job up, enter PROCESSING, reject an empty file list
Begin(j, files) ==
    /\ UNCHANGED notIngest
    /\ pc = "idle"
    /\ run' = [job_id |-> j, files |-> files, provider_failed |-> FALSE]
    /\ IF j \notin DOMAIN jobs
       THEN \* raise KeyError
            /\ ret' = [NoRet EXCEPT !.kind = "raised", !.exc = "KeyError"]
            /\ pc' = "idle"
            /\ stage_log' = <<>>
            /\ stage_result' = NoStageResult
            /\ UNCHANGED jobs
       ELSE LET processing == update_status(jobs[j], "processing", None, None)
                failed == update_status(processing, "failed", NoFilesText,
                                        "extraction")
            IN  /\ stage_log' = <<"extraction">>
                /\ IF files = 0
                   THEN /\ jobs' = [jobs EXCEPT ![j] = failed]
                        /\ stage_result' =
                               [NoStageResult EXCEPT !["extraction"] = "failed"]
                        /\ ret' = [NoRet EXCEPT
                                      !.kind = "returned",
                                      !.status = failed.status,
                                      !.error_stage = failed.error_stage,
                                      !.error_message = failed.error_message,
                                      !.raised_stage = "extraction",
                                      !.raised_text = NoFilesText]
                        /\ pc' = "idle"
                   ELSE /\ jobs' = [jobs EXCEPT ![j] = processing]
                        /\ stage_result' =
                               [NoStageResult EXCEPT !["extraction"] = "running"]
                        /\ ret' = NoRet
                        /\ pc' = "extraction"
    /\ UNCHANGED <<postgres_client, embedding_service, last_progress>>

\* lines 99-128: stage 1, extraction
Extraction(ok, text) ==
    /\ UNCHANGED notIngest
    /\ pc = "extraction"
    /\ LET j == run.job_id IN
       IF ok
       THEN /\ jobs' = [jobs EXCEPT ![j] =
                   update_metrics([@ EXCEPT !.extracted_document = TRUE],
                                  "extraction", {"pages"})]
            /\ stage_result' = [stage_result EXCEPT !["extraction"] = "ok"]
            /\ pc' = "chunking"
            /\ UNCHANGED ret
       ELSE FailStage(j, "extraction", text)
    /\ UNCHANGED <<postgres_client, embedding_service, run, stage_log, last_progress>>

\* A variant of the chunking stage whose failure handler does not return.
Chunking_no_return(ok, n, text) ==
    /\ UNCHANGED notIngest
    /\ pc = "chunking"
    /\ LET j == run.job_id IN
       IF ok
       THEN /\ jobs' = [jobs EXCEPT ![j] =
                   update_metrics([@ EXCEPT !.chunks = n], "chunking", {"chunks"})]
            /\ stage_result' = [stage_result EXCEPT !["chunking"] = "ok"]
       ELSE /\ jobs' = [jobs EXCEPT ![j] =
                   update_status([@ EXCEPT !.chunks = n], "failed", text, "chunking")]
            /\ stage_result' = [stage_result EXCEPT !["chunking"] = "failed"]
    /\ stage_log' = Append(stage_log, "chunking")
    /\ pc' = "storage"
    /\ UNCHANGED <<postgres_client, embedding_service, run, ret, last_progress>>

\* lines 133-180: stage 2, chunking
Chunking(ok, n, text) ==
    /\ UNCHANGED notIngest
    /\ pc = "chunking"
    /\ stage_log' = Append(stage_log, "chunking")
    /\ LET j == run.job_id IN
       IF ok
       THEN /\ jobs' = [jobs EXCEPT ![j] =
                   update_metrics([@ EXCEPT !.chunks = n], "chunking", {"chunks"})]
            /\ stage_result' = [stage_result EXCEPT !["chunking"] = "ok"]
            /\ pc' = "storage"
            /\ UNCHANGED ret
       ELSE FailStage(j, "chunking", text)
    /\ UNCHANGED <<postgres_client, embedding_service, run, last_progress>>

\* lines 182-322: stage 3, persist the document and chunk rows
Storage(ok, text) ==
    /\ UNCHANGED notIngest
    /\ pc = "storage"
    /\ LET j == run.job_id IN
       IF postgres_client /\ jobs[j].chunks > 0
       THEN /\ stage_log' = Append(stage_log, "storage")
            /\ IF ok
               THEN /\ stage_result' = [stage_result EXCEPT !["storage"] = "ok"]
                    /\ pc' = "embedding"
                    /\ UNCHANGED <<jobs, ret>>
               ELSE FailStage(j, "storage", text)
       ELSE /\ pc' = "embedding"
            /\ UNCHANGED <<jobs, stage_log, stage_result, ret>>
    /\ UNCHANGED <<postgres_client, embedding_service, run, last_progress>>

\* lines 327-343: stage 4 up to `await embed_and_store(...)`
EmbeddingStart ==
    /\ UNCHANGED notIngest
    /\ pc = "embedding"
    /\ IF embedding_service /\ jobs[run.job_id].chunks > 0
       THEN /\ stage_log' = Append(stage_log, "embedding")
            /\ stage_result' = [stage_result EXCEPT !["embedding"] = "running"]
            /\ pc' = "await_embedding"
       ELSE /\ pc' = "complete"
            /\ UNCHANGED <<stage_log, stage_result>>
    /\ UNCHANGED <<jobs, postgres_client, embedding_service, run, ret, last_progress>>

\* lines 339-388: embed_and_store finishes and the call resumes
EmbeddingResume(dups, provider, text) ==
    /\ UNCHANGED notIngest
    /\ pc = "await_embedding"
    /\ dups <= jobs[run.job_id].chunks
    /\ LET j == run.job_id
           res == embed_and_store(jobs[j].chunks, dups, provider, text)
       IN
       IF res.raised
       THEN /\ FailStage(j, "embedding", res.text)
            /\ UNCHANGED run
       ELSE /\ jobs' = [jobs EXCEPT ![j] =
                   update_metrics([@ EXCEPT !.embeddings = res.embeddings],
                                  "embedding", res.quality_metrics)]
            /\ stage_result' = [stage_result EXCEPT !["embedding"] = "ok"]
            /\ run' = [run EXCEPT !.provider_failed =
                          provider = "EmbeddingProviderError" /\ res.api_calls > 0]
            /\ pc' = "complete"
            /\ UNCHANGED ret
    /\ UNCHANGED <<postgres_client, embedding_service, stage_log, last_progress>>

\* line 339: the awaiting task is cancelled; CancelledError is a
\* BaseException and passes `except Exception`
EmbeddingCancelled ==
    /\ UNCHANGED notIngest
    /\ pc = "await_embedding"
    /\ ret' = Raised("CancelledError", jobs[run.job_id])
    /\ pc' = "idle"
    /\ UNCHANGED <<jobs, postgres_client, embedding_service, run, stage_log,
                   stage_result, last_progress>>

\* lines 393-416: mark the job COMPLETED and return it
Complete ==
    /\ UNCHANGED notIngest
    /\ pc = "complete"
    /\ LET j == run.job_id
           job == update_status(jobs[j], "completed", None, None)
       IN  /\ jobs' = [jobs EXCEPT ![j] = job]
           /\ ret' = Returned(job, None, None)
    /\ pc' = "idle"
    /\ UNCHANGED <<postgres_client, embedding_service, run, stage_log,
                   stage_result, last_progress>>

-----------------------------------------------------------------------------
(* Ingestion: the other callers of the store.  The orchestrator runs on    *)
(* the event loop, so they run only while no call is in progress or the    *)
(* call is suspended at its await.                                         *)

Suspended == pc \in {"idle", "await_embedding"}

\* endpoints.py ingest_orchestrated: create_job with a fresh id
CreateJob(j) ==
    /\ UNCHANGED notIngest
    /\ pc = "idle"
    /\ j \notin DOMAIN jobs
    /\ jobs' = [x \in DOMAIN jobs \cup {j} |-> IF x = j THEN NewJob ELSE jobs[x]]
    /\ UNCHANGED <<postgres_client, embedding_service, pc, run, stage_log,
                   stage_result, ret, last_progress>>

\* a direct call of IngestionJobStore.update_status
UpdateStatusCall(j, status, error_message, error_stage) ==
    /\ UNCHANGED notIngest
    /\ Suspended
    /\ j \in DOMAIN jobs
    /\ jobs' = [jobs EXCEPT ![j] =
                   update_status(@, status, error_message, error_stage)]
    /\ UNCHANGED <<postgres_client, embedding_service, pc, run, stage_log,
                   stage_result, ret, last_progress>>

\* a direct call of IngestionJobStore.update_metrics
UpdateMetricsCall(j, stage) ==
    /\ UNCHANGED notIngest
    /\ Suspended
    /\ j \in DOMAIN jobs
    /\ jobs' = [jobs EXCEPT ![j] = update_metrics(@, stage, {})]
    /\ UNCHANGED <<postgres_client, embedding_service, pc, run, stage_log,
                   stage_result, ret, last_progress>>

\* endpoints.py get_orchestrated_ingestion_status: read progress_percent
StatusRead(j) ==
    /\ UNCHANGED notIngest
    /\ Suspended
    /\ j \in DOMAIN jobs
    /\ last_progress' = progress_percent(jobs[j])
    /\ UNCHANGED <<jobs, postgres_client, embedding_service, pc, run, stage_log,
                   stage_result, ret>>

-----------------------------------------------------------------------------
(* Query pipeline: TimeoutManager (guardrails.py).  Times are in ticks.    *)

\* QUERY_TIMEOUT_SECONDS values the service may be configured with
TimeoutSettings == {0, 1, 2, 200}

\* no error raised yet
NoError ==
    [type |-> None, timeout_seconds |-> 0, elapsed_ms |-> 0, stages_completed |-> 0]

\* TimeoutManager.__init__
TimeoutManager(timeout_seconds, now) ==
    LET clamped == Max(1, Min(timeout_seconds, 120)) IN
    [timeout_seconds |-> clamped,
     start_time |-> now,
     deadline |-> now + clamped * TicksPerSec]

\* TimeoutManager.get_elapsed_ms
get_elapsed_ms(t, now) == now - t.start_time

\* A variant of the check that fails only once the deadline has passed.
assert_time_available_past_deadline(t, now, min_required_seconds) ==
    ~(t.deadline - now < 0)

\* TimeoutManager.assert_time_available: TRUE when it returns, FALSE when
\* it raises QueryTimeoutError
assert_time_available(t, now, min_required_seconds) ==
    ~(t.deadline - now < min_required_seconds * TicksPerSec)

\* the QueryTimeoutError that assert_time_available raises
QueryTimeoutError(t, now, stages_completed) ==
    [type |-> "QueryTimeoutError",
     timeout_seconds |-> t.timeout_seconds,
     elapsed_ms |-> get_elapsed_ms(t, now),
     stages_completed |-> stages_completed]

-----------------------------------------------------------------------------
(* Query pipeline: query_endpoint (endpoints.py) running                   *)
(* GenerationOrchestrator.generate_answer (generation_services.py), which  *)
(* runs QueryOrchestrator.query (query_services.py).                       *)

\* the steps of the pipeline, each with the stage of generate_answer it is
\* in (the stage whose check passes stages_completed = stage - 1)
StepStage ==
    [embed |-> 1, retrieve |-> 1, prompt |-> 2, generate |-> 3, post |-> 4]

StageDurations == 0..MaxStageTicks

Began(step) == [step |-> step, remaining |-> tm.deadline - qnow, at |-> qnow]

\* the request ends with an error response
FailWith(err) ==
    /\ qerr' = err
    /\ qresp' = qnow
    /\ qpc' = "responded"
    /\ UNCHANGED <<qnow, qlog>>

\* a step of the pipeline runs for d ticks and then ends or raises
RunStep(step, d, ok, nextpc) ==
    /\ qlog' = Append(qlog, Began(step))
    /\ qnow' = qnow + d
    /\ IF ok
       THEN /\ qpc' = nextpc
            /\ UNCHANGED <<qerr, qresp>>
       ELSE /\ qerr' = [type |-> "Exception", timeout_seconds |-> 0,
                        elapsed_ms |-> 0, stages_completed |-> 0]
            /\ qresp' = qnow + d
            /\ qpc' = "responded"

\* endpoints.py 525-526: the pipeline is entered, the deadline is set
QueryEnter(timeout_seconds) ==
    /\ UNCHANGED notQuery
    /\ qpc = "idle"
    /\ tm' = TimeoutManager(timeout_seconds, qnow)
    /\ qpc' = "stage_1"
    /\ UNCHANGED <<qnow, qlog, qerr, qresp>>

\* generation_services.py 299-314 with query_services.py 172-193: the
\* check before stage 1, then the query is embedded
Stage1Embed(d, ok) ==
    /\ UNCHANGED notQuery
    /\ qpc = "stage_1"
    /\ IF assert_time_available(tm, qnow, 1)
       THEN RunStep("embed", d, ok, "retrieve")
       ELSE FailWith(QueryTimeoutError(tm, qnow, 0))
    /\ UNCHANGED tm

\* query_services.py 198-208: similarity retrieval, still in stage 1
Stage1Retrieve(d, ok) ==
    /\ UNCHANGED notQuery
    /\ qpc = "retrieve"
    /\ RunStep("retrieve", d, ok, "stage_2")
    /\ UNCHANGED tm

\* generation_services.py 327-342: the check, then the prompt is assembled
Stage2Prompt(d, ok) ==
    /\ UNCHANGED notQuery
    /\ qpc = "stage_2"
    /\ IF assert_time_available(tm, qnow, 1)
       THEN RunStep("prompt", d, ok, "stage_3")
       ELSE FailWith(QueryTimeoutError(tm, qnow, 1))
    /\ UNCHANGED tm

\* generation_services.py 354-369: the check, then the LLM call
Stage3Generate(d, ok) ==
    /\ UNCHANGED notQuery
    /\ qpc = "stage_3"
    /\ IF assert_time_available(tm, qnow, 1)
       THEN RunStep("generate", d, ok, "stage_4")
       ELSE FailWith(QueryTimeoutError(tm, qnow, 2))
    /\ UNCHANGED tm

\* generation_services.py 390-409: the check, then answer post-processing
Stage4Post(d, ok) ==
    /\ UNCHANGED notQuery
    /\ qpc = "stage_4"
    /\ IF assert_time_available(tm, qnow, 1)
       THEN RunStep("post", d, ok, "endpoint_retrieval")
       ELSE FailWith(QueryTimeoutError(tm, qnow, 3))
    /\ UNCHANGED tm

\* endpoints.py 671-790: the endpoint runs the query orchestrator once more
\* for the retrieved_chunks of the response and returns the response
EndpointRespond(d) ==
    /\ UNCHANGED notQuery
    /\ qpc = "endpoint_retrieval"
    /\ qnow' = qnow + d
    /\ qresp' = qnow + d
    /\ qpc' = "responded"
    /\ UNCHANGED <<tm, qlog, qerr>>

-----------------------------------------------------------------------------
(* Embedding provider: BatchEmbeddingProvider._embed_with_retries          *)
(* (embedding_provider.py).  Delays are in tenths of a second.             *)

\* what one _call_api call does: it returns vectors or raises; an error is
\* named by its HTTP status, "transient" for one without a status, or
\* "ValueError"
CallOutcomes == {"ok", "http_429", "http_503", "transient", "http_400", "ValueError"}

\* base_backoff_seconds values the provider is configured with
BackoffSettings == {1, 3}

\* BatchEmbeddingProvider._is_retryable_error
is_retryable_error(exc) ==
    IF exc = "ValueError" THEN FALSE
    ELSE IF exc \in {"http_429", "http_500", "http_502", "http_503", "http_504"}
         THEN TRUE
         ELSE TRUE

\* A variant of the give-up test that counts the first call as a retry.
gives_up_at_max(exc, n, max_retries) ==
    ~is_retryable_error(exc) \/ n >= max_retries

\* the test of lines 122-125: the error is raised as EmbeddingProviderError
gives_up(exc, n, max_retries) ==
    ~is_retryable_error(exc) \/ n > max_retries

\* lines 114-115: the call starts
RetryStart ==
    /\ UNCHANGED notRetry
    /\ rpc = "idle"
    /\ attempts' = 0
    /\ delay' = rcfg.base_backoff_seconds
    /\ rpc' = "loop"
    /\ UNCHANGED <<rcfg, calls, sleeps>>

\* lines 117-149: one pass of the loop up to the return, the raise or the
\* sleep
CallApi(outcome) ==
    /\ UNCHANGED notRetry
    /\ rpc = "loop"
    /\ attempts' = attempts + 1
    /\ calls' = Append(calls, outcome)
    /\ rpc' = IF outcome = "ok" THEN "returned"
              ELSE IF gives_up(outcome, attempts + 1, rcfg.max_retries)
                   THEN "raised"
                   ELSE "sleeping"
    /\ UNCHANGED <<rcfg, delay, sleeps>>

\* lines 150-151: await asyncio.sleep(delay); delay *= 2
Sleep ==
    /\ UNCHANGED notRetry
    /\ rpc = "sleeping"
    /\ sleeps' = Append(sleeps, delay)
    /\ delay' = delay * 2
    /\ rpc' = "loop"
    /\ UNCHANGED <<rcfg, attempts, calls>>

-----------------------------------------------------------------------------
(* Query embedding cache: QueryEmbeddingCache (query_cache.py) as          *)
(* QueryOrchestrator.query uses it (query_services.py, lines 173-196).     *)
(* Times are in ticks.                                                     *)

QueryTexts == {"q1", "q2"}

\* the vector the embedding provider returns for a text
QueryVector(query_text) == IF query_text = "q1" THEN "v1" ELSE "v2"

\* the coroutines that run QueryOrchestrator.query
QueryCalls == {1, 2}

NoEntry == [embedding |-> None, expires_at |-> -1]

NoQueryCall == [pc |-> "idle", query_text |-> None, query_embedding |-> None,
                cache_hit |-> FALSE]

\* A variant of the expiry test that keeps an entry alive at its expiry time.
entry_expired_after(entry, now) ==
    entry.expires_at < now

\* the expiry test of QueryEmbeddingCache.get: entry.expires_at <= self._now()
entry_expired(entry, now) ==
    entry.expires_at <= now

\* QueryEmbeddingCache.get: the store it leaves and the value it returns
cache_get(store, query_text, now) ==
    LET entry == store[query_text]
    IN  IF entry = NoEntry
        THEN [store |-> store, value |-> None]
        ELSE IF entry_expired(entry, now)
             THEN [store |-> [store EXCEPT ![query_text] = NoEntry],
                   value |-> None]
             ELSE [store |-> store, value |-> entry.embedding]

\* QueryEmbeddingCache.set with the default ttl_seconds
cache_set(store, query_text, embedding, now) ==
    [store EXCEPT ![query_text] =
        [embedding |-> embedding, expires_at |-> now + CacheTtlTicks]]

\* query, lines 173-186: the cache is read; on a hit the call goes on to
\* retrieval, on a miss it calls embed_query and is suspended at the await
CacheLookup(c, query_text) ==
    /\ UNCHANGED notCache
    /\ creq[c].pc = "idle"
    /\ Len(SelectSeq(clog, LAMBDA e : e.kind = "get")) < MaxQueries
    /\ LET got == cache_get(cstore, query_text, cnow)
           hit == got.value # None
       IN  /\ cstore' = got.store
           /\ creq' = [creq EXCEPT ![c] =
                  [pc |-> IF hit THEN "retrieve" ELSE "await_embed",
                   query_text |-> query_text,
                   query_embedding |-> got.value,
                   cache_hit |-> hit]]
           /\ clog' = Append(clog, [kind |-> "get", query_text |-> query_text,
                                    at |-> cnow, provider_called |-> ~hit,
                                    embedding |-> got.value])
    /\ UNCHANGED cnow

\* query, lines 184-188: embed_query returns and the vector is cached
EmbedQueryReturns(c) ==
    /\ UNCHANGED notCache
    /\ creq[c].pc = "await_embed"
    /\ LET v == QueryVector(creq[c].query_text)
       IN  /\ cstore' = cache_set(cstore, creq[c].query_text, v, cnow)
           /\ creq' = [creq EXCEPT ![c].pc = "retrieve",
                                   ![c].query_embedding = v]
           /\ clog' = Append(clog, [kind |-> "set",
                                    query_text |-> creq[c].query_text,
                                    at |-> cnow, provider_called |-> FALSE,
                                    embedding |-> v])
    /\ UNCHANGED cnow

\* query, lines 184-187: embed_query raises and the exception leaves query
EmbedQueryRaises(c) ==
    /\ UNCHANGED notCache
    /\ creq[c].pc = "await_embed"
    /\ creq' = [creq EXCEPT ![c] = NoQueryCall]
    /\ UNCHANGED <<cstore, cnow, clog>>

\* query, lines 196-243: retrieval runs and the call returns
QueryReturns(c) ==
    /\ UNCHANGED notCache
    /\ creq[c].pc = "retrieve"
    /\ creq' = [creq EXCEPT ![c] = NoQueryCall]
    /\ UNCHANGED <<cstore, cnow, clog>>

\* the clock advances
CacheTick ==
    /\ UNCHANGED notCache
    /\ cnow < MaxCacheClock
    /\ cnow' = cnow + 1
    /\ UNCHANGED <<cstore, creq, clog>>

InitCacheIdle ==
    /\ cstore = [t \in QueryTexts |-> NoEntry]
    /\ cnow = 0
    /\ creq = [c \in QueryCalls |-> [NoQueryCall EXCEPT !.pc = "off"]]
    /\ clog = <<>>

InitCache ==
    /\ cstore = [t \in QueryTexts |-> NoEntry]
    /\ cnow = 0
    /\ creq = [c \in QueryCalls |-> NoQueryCall]
    /\ clog = <<>>

NextCache ==
    \/ \E c \in QueryCalls, t \in QueryTexts : CacheLookup(c, t)
    \/ \E c \in QueryCalls : EmbedQueryReturns(c)
    \/ \E c \in QueryCalls : EmbedQueryRaises(c)
    \/ \E c \in QueryCalls : QueryReturns(c)
    \/ CacheTick

-----------------------------------------------------------------------------
(* Rate limiter: RateLimiter.is_allowed (rate_limiter.py).  Timestamps are  *)
(* datetimes, which are finer than a second: times are in clock ticks,      *)
(* TicksPerSec to the second; limits of time passed by the caller and       *)
(* retry_after are in seconds.                                              *)

UserIds == {"u1", "u2"}

\* the timestamps of a list that satisfy ts > window_start
drop_outside(timestamps, window_start) ==
    SelectSeq(timestamps, LAMBDA ts : ts > window_start)

\* A variant of the limit test that allows one request more.
within_limit_inclusive(n, limit) ==
    n <= limit

\* the limit test of line 47: len(self.user_requests[user_id]) < limit
within_limit(n, limit) ==
    n < limit

\* A variant of retry_after without the second added after truncation.
retry_after_truncated(oldest_request, window_start) ==
    (oldest_request - window_start) \div TicksPerSec

\* line 53: int((oldest_request - window_start).total_seconds()) + 1, for
\* oldest_request > window_start
retry_after_seconds(oldest_request, window_start) ==
    (oldest_request - window_start) \div TicksPerSec + 1

\* RateLimiter.is_allowed: the list it leaves and what it returns.  With an
\* empty list and limit <= 0 line 52 raises IndexError.
is_allowed(timestamps, now, limit, window_seconds) ==
    LET window_start == now - window_seconds * TicksPerSec
        kept == drop_outside(timestamps, window_start)
    IN  IF within_limit(Len(kept), limit)
        THEN [timestamps |-> Append(kept, now), allowed |-> TRUE,
              retry_after |-> None, raised |-> FALSE]
        ELSE IF kept = <<>>
             THEN [timestamps |-> kept, allowed |-> FALSE,
                   retry_after |-> None, raised |-> TRUE]
             ELSE [timestamps |-> kept, allowed |-> FALSE,
                   retry_after |->
                       retry_after_seconds(kept[1], window_start),
                   raised |-> FALSE]

\* one call of is_allowed by a user
IsAllowed(u) ==
    /\ UNCHANGED notLimiter
    /\ Len(llog) < MaxLimiterCalls
    /\ LET r == is_allowed(user_requests[u], lnow, lcfg.limit,
                           lcfg.window_seconds)
       IN  /\ user_requests' = [user_requests EXCEPT ![u] = r.timestamps]
           /\ llog' = Append(llog, [user_id |-> u, at |-> lnow,
                                    allowed |-> r.allowed,
                                    retry_after |-> r.retry_after,
                                    raised |-> r.raised])
    /\ UNCHANGED <<lnow, lcfg>>

\* the clock advances
LimiterTick ==
    /\ UNCHANGED notLimiter
    /\ lnow < MaxLimiterClock
    /\ lnow' = lnow + 1
    /\ UNCHANGED <<user_requests, lcfg, llog>>

InitLimiterIdle ==
    /\ user_requests = [u \in UserIds |-> <<>>]
    /\ lnow = 0
    /\ lcfg = [limit |-> 0, window_seconds |-> 0]
    /\ llog = <<>>

InitLimiter ==
    /\ user_requests = [u \in UserIds |-> <<>>]
    /\ lnow = 0
    /\ lcfg \in [limit : 0..MaxLimit, window_seconds : 1..MaxWindow]
    /\ llog = <<>>

NextLimiter ==
    \/ \E u \in UserIds : IsAllowed(u)
    \/ LimiterTick

-----------------------------------------------------------------------------
(* PDF extraction: PDFExtractionPipeline (extractors/pdf_pipeline.py).     *)

Tiers == 1..4

\* the tiers PDFExtractor.analyze_pdf recommends
RecommendedTiers == {1, 2, 4}

\* force_tier arguments: 0 for None, a tier, or a number that is no tier
ForceTiers == 0..5

NoPdfResult == [kind |-> None, tier_used |-> 0, fallback_attempted |-> FALSE,
                error_type |-> None]

\* PDFExtractionPipeline._select_tier
select_tier(config, recommended) ==
    IF recommended = 1 /\ config.enabled[1] THEN 1
    ELSE IF recommended = 2 /\ config.enabled[2] THEN 2
    ELSE IF recommended = 3 /\ config.enabled[3] THEN 3
    ELSE IF recommended = 4 /\ config.enabled[4] THEN 4
    ELSE IF config.enabled[1] THEN 1
    ELSE IF config.enabled[4] THEN 4
    ELSE 1

\* the enabled tiers among first..4 other than failed_tier, ascending
RECURSIVE available_from(_, _, _)
available_from(config, failed_tier, first) ==
    IF first > 4 THEN <<>>
    ELSE IF first # failed_tier /\ config.enabled[first]
         THEN <<first>> \o available_from(config, failed_tier, first + 1)
         ELSE available_from(config, failed_tier, first + 1)

\* A variant of the fallback order that tries the failed tier again.
get_fallback_order_with_failed(config, failed_tier) ==
    available_from(config, 0, 1)

\* PDFExtractionPipeline._get_fallback_order
get_fallback_order(config, failed_tier) ==
    available_from(config, failed_tier, 1)

\* extract, lines 188-204: the target tier is forced or selected
PdfExtract(force_tier) ==
    /\ UNCHANGED notPdf
    /\ ppc = "idle"
    /\ ptarget' = IF force_tier # 0 THEN force_tier
                  ELSE select_tier(pcfg, precommended)
    /\ ppc' = IF force_tier # 0 THEN "forced" ELSE "selected"
    /\ pattempts' = <<>>
    /\ porder' = <<>>
    /\ pres' = NoPdfResult
    /\ UNCHANGED <<pcfg, precommended>>

\* _execute_with_fallback, lines 294-323: the target tier is attempted.  A
\* number that is no tier makes _extract_tier raise ValueError, which is
\* not caught.
PdfTryTarget(ok) ==
    /\ UNCHANGED notPdf
    /\ ppc \in {"forced", "selected"}
    /\ IF ptarget \notin Tiers
       THEN /\ pres' = [NoPdfResult EXCEPT !.kind = "raised",
                                           !.error_type = "ValueError"]
            /\ ppc' = "done"
            /\ UNCHANGED <<pattempts, porder>>
       ELSE /\ pattempts' = Append(pattempts, [tier |-> ptarget, ok |-> ok])
            /\ IF ok
               THEN /\ pres' = [kind |-> "returned", tier_used |-> ptarget,
                                fallback_attempted |-> FALSE,
                                error_type |-> None]
                    /\ ppc' = "done"
                    /\ UNCHANGED porder
               ELSE IF ~pcfg.auto_fallback
                    THEN /\ pres' = [NoPdfResult EXCEPT
                                        !.kind = "raised",
                                        !.error_type = "tier_error"]
                         /\ ppc' = "done"
                         /\ UNCHANGED porder
                    ELSE /\ porder' = get_fallback_order(pcfg, ptarget)
                         /\ ppc' = "fallback"
                         /\ UNCHANGED pres
    /\ UNCHANGED <<pcfg, precommended, ptarget>>

\* lines 328-346: the next fallback tier is attempted
PdfTryFallback(ok) ==
    /\ UNCHANGED notPdf
    /\ ppc = "fallback"
    /\ porder # <<>>
    /\ pattempts' = Append(pattempts, [tier |-> Head(porder), ok |-> ok])
    /\ porder' = Tail(porder)
    /\ IF ok
       THEN /\ pres' = [kind |-> "returned", tier_used |-> Head(porder),
                        fallback_attempted |-> TRUE, error_type |-> None]
            /\ ppc' = "done"
       ELSE UNCHANGED <<pres, ppc>>
    /\ UNCHANGED <<pcfg, precommended, ptarget>>

\* lines 348-358: every tier failed
PdfAllFailed ==
    /\ UNCHANGED notPdf
    /\ ppc = "fallback"
    /\ porder = <<>>
    /\ pres' = [NoPdfResult EXCEPT !.kind = "raised",
                                   !.error_type = "all_tiers_failed"]
    /\ ppc' = "done"
    /\ UNCHANGED <<pcfg, precommended, ptarget, porder, pattempts>>

InitPdfIdle ==
    /\ pcfg = [enabled |-> [t \in Tiers |-> FALSE], auto_fallback |-> FALSE]
    /\ precommended = 1
    /\ ppc = "off"
    /\ ptarget = 0
    /\ porder = <<>>
    /\ pattempts = <<>>
    /\ pres = NoPdfResult

InitPdf ==
    /\ pcfg \in [enabled : [Tiers -> BOOLEAN], auto_fallback : BOOLEAN]
    /\ precommended \in RecommendedTiers
    /\ ppc = "idle"
    /\ ptarget = 0
    /\ porder = <<>>
    /\ pattempts = <<>>
    /\ pres = NoPdfResult

NextPdf ==
    \/ \E force_tier \in ForceTiers : PdfExtract(force_tier)
    \/ \E ok \in BOOLEAN : PdfTryTarget(ok)
    \/ \E ok \in BOOLEAN : PdfTryFallback(ok)
    \/ PdfAllFailed

-----------------------------------------------------------------------------
(* Vector store: InMemoryVectorDBStorageLayer (vector_storage.py) and      *)
(* EmbeddingService.embed_and_store (embedding_service.py) writing to it.  *)

\* chunk ids; the i-th chunk of a chunk list has chunk_id i
ChunkIds == 1..MaxBatch

Contents == {"x", "y"}

\* the chunks of one embed_and_store call, by chunk_id and content
ChunkLists ==
    UNION {{[i \in 1..n |-> [chunk_id |-> i, content |-> contents[i],
                             is_duplicate |-> FALSE]] :
               contents \in [1..n -> Contents]} : n \in 0..MaxBatch}

\* the vector a provider returns in the store model, and its metadata
UnitVector == <<1, 0>>

NoMetadata == [source |-> None, lang |-> None]

\* Embedding(...): embedding_id is a fresh uuid4 unless the caller sets it
Embedding(embedding_id, chunk_id, content, embedding, metadata) ==
    [embedding_id |-> embedding_id, chunk_id |-> chunk_id,
     content |-> content, embedding |-> embedding, metadata |-> metadata]

\* InMemoryVectorDBStorageLayer.store_embedding:
\* self._store[embedding.embedding_id] = embedding
store_embedding(store, e) ==
    IF \E i \in 1..Len(store) : store[i].embedding_id = e.embedding_id
    THEN [i \in 1..Len(store) |->
             IF store[i].embedding_id = e.embedding_id THEN e ELSE store[i]]
    ELSE Append(store, e)

\* InMemoryVectorDBStorageLayer.store_embeddings_batch
RECURSIVE store_embeddings_batch(_, _)
store_embeddings_batch(store, embeddings) ==
    IF embeddings = <<>> THEN store
    ELSE store_embeddings_batch(store_embedding(store, Head(embeddings)),
                                Tail(embeddings))

\* A variant of the duplicate check that looks at the oldest embedding only.
check_duplicate_content_first(store, content) ==
    store # <<>> /\ store[1].content = content

\* InMemoryVectorDBStorageLayer.check_duplicate_content(content) is not None
check_duplicate_content(store, content) ==
    \E i \in 1..Len(store) : store[i].content = content

NoEmbedCall ==
    [pc |-> "idle", skip_duplicate_content |-> FALSE, chunks |-> <<>>,
     inputs |-> <<>>, duplicates_skipped |-> 0, contents_at_call |-> {},
     provider_called |-> FALSE, stored |-> {}, returned |-> FALSE]

\* embed_and_store, lines 88-111: the indexes of the chunks that become
\* EmbeddingInput objects, in order
RECURSIVE build_inputs(_, _, _, _)
build_inputs(store, chunks, skip, i) ==
    IF i > Len(chunks) THEN <<>>
    ELSE IF skip /\ check_duplicate_content(store, chunks[i].content)
         THEN build_inputs(store, chunks, skip, i + 1)
         ELSE <<i>> \o build_inputs(store, chunks, skip, i + 1)

\* store_embedding called directly with an Embedding whose embedding_id is
\* fresh (a uuid4) or the one of a stored embedding
StoreEmbedding(embedding_id, chunk_id, content) ==
    /\ UNCHANGED notStore
    /\ ecall.pc \in {"idle", "await_provider"}
    /\ IF embedding_id = vnext
       THEN /\ Len(vstore) < MaxStored
            /\ vnext' = vnext + 1
       ELSE /\ \E i \in 1..Len(vstore) : vstore[i].embedding_id = embedding_id
            /\ UNCHANGED vnext
    /\ vstore' = store_embedding(vstore,
                    Embedding(embedding_id, chunk_id, content, UnitVector,
                              NoMetadata))
    /\ UNCHANGED <<ecall, sres>>

\* store_embeddings_batch called directly with fresh embeddings
StoreEmbeddingsBatch(chunks) ==
    /\ UNCHANGED notStore
    /\ ecall.pc \in {"idle", "await_provider"}
    /\ chunks # <<>>
    /\ Len(vstore) + Len(chunks) <= MaxStored
    /\ vstore' = store_embeddings_batch(vstore,
                    [i \in 1..Len(chunks) |->
                        Embedding(vnext + i - 1, chunks[i].chunk_id,
                                  chunks[i].content, UnitVector, NoMetadata)])
    /\ vnext' = vnext + Len(chunks)
    /\ UNCHANGED <<ecall, sres>>

\* embed_and_store, lines 58-134: duplicates are looked up and marked, the
\* inputs are built; with no input the call returns, otherwise it awaits
\* the provider
EmbedAndStore(chunks, skip) ==
    /\ UNCHANGED notStore
    /\ ecall.pc = "idle"
    /\ LET inputs == build_inputs(vstore, chunks, skip, 1)
           sent == {inputs[k] : k \in 1..Len(inputs)}
       IN  ecall' =
             [pc |-> IF inputs = <<>> THEN "idle" ELSE "await_provider",
              skip_duplicate_content |-> skip,
              chunks |-> [i \in 1..Len(chunks) |->
                            IF i \in sent THEN chunks[i]
                            ELSE [chunks[i] EXCEPT !.is_duplicate = TRUE]],
              inputs |-> inputs,
              duplicates_skipped |-> Len(chunks) - Len(inputs),
              contents_at_call |-> {vstore[i].content : i \in 1..Len(vstore)},
              provider_called |-> inputs # <<>>,
              stored |-> {},
              returned |-> TRUE]
    /\ UNCHANGED <<vstore, vnext, sres>>

\* embed_and_store, lines 141-235: the provider raises, or returns one
\* embedding per input; the valid ones are stored
EmbedAndStoreResume(raises, valid) ==
    /\ UNCHANGED notStore
    /\ ecall.pc = "await_provider"
    /\ IF raises
       THEN /\ ecall' = [ecall EXCEPT !.pc = "idle"]
            /\ UNCHANGED <<vstore, vnext>>
       ELSE LET kept == SelectSeq(ecall.inputs, LAMBDA i : valid[i])
                embeddings ==
                    [k \in 1..Len(kept) |->
                        Embedding(vnext + k - 1,
                                  ecall.chunks[kept[k]].chunk_id,
                                  ecall.chunks[kept[k]].content,
                                  UnitVector, NoMetadata)]
            IN  /\ Len(vstore) + Len(kept) <= MaxStored
                /\ vstore' = store_embeddings_batch(vstore, embeddings)
                /\ vnext' = vnext + Len(kept)
                /\ ecall' = [ecall EXCEPT
                                !.pc = "idle",
                                !.stored = {kept[k] : k \in 1..Len(kept)}]
    /\ UNCHANGED sres

NoSearch == [searched |-> FALSE, embedding |-> <<>>, top_k |-> 0,
             filters |-> NoMetadata, results |-> <<>>]

InitStoreIdle ==
    /\ vstore = <<>>
    /\ vnext = 1
    /\ ecall = [NoEmbedCall EXCEPT !.pc = "off"]
    /\ sres = NoSearch

InitStore ==
    /\ vstore = <<>>
    /\ vnext = 1
    /\ ecall = NoEmbedCall
    /\ sres = NoSearch

NextStore ==
    \/ \E id \in 1..MaxStored, c \in ChunkIds, content \in Contents :
          StoreEmbedding(id, c, content)
    \/ \E chunks \in ChunkLists : StoreEmbeddingsBatch(chunks)
    \/ \E chunks \in ChunkLists, skip \in BOOLEAN : EmbedAndStore(chunks, skip)
    \/ \E raises \in BOOLEAN, valid \in [1..MaxBatch -> BOOLEAN] :
          EmbedAndStoreResume(raises, valid)

-----------------------------------------------------------------------------
(* Vector store: InMemoryVectorDBStorageLayer.search_by_similarity         *)
(* (vector_storage.py, lines 74-126).  Vectors have integer components; a   *)
(* similarity dot / (sqrt(norm_a) * sqrt(norm_b)) is kept as the pair of    *)
(* dot and norm_a * norm_b and compared by cross-multiplication.            *)

\* stored vectors: unit and diagonal vectors, the zero vector and a vector
\* of another dimension
StoredVectors == {<<1, 0>>, <<1, 1>>, <<0, 1>>, <<-1, 0>>, <<0, 0>>, <<1>>}

SearchVectors == {<<1, 0>>, <<1, 1>>, <<0, 0>>}

\* metadata of the stored embeddings and the filters of a search; None
\* stands for a key that is absent
StoredMetadata == {[source |-> "a", lang |-> "en"],
                   [source |-> "b", lang |-> "en"],
                   [source |-> "a", lang |-> None]}

SearchFilters == {[source |-> None, lang |-> None],
                  [source |-> "a", lang |-> None],
                  [source |-> None, lang |-> "en"],
                  [source |-> "a", lang |-> "en"]}

\* the stores a search runs against
StoredEmbeddings ==
    UNION {{[i \in 1..n |-> Embedding(i, i, "x", pick[i][1], pick[i][2])] :
               pick \in [1..n -> StoredVectors \X StoredMetadata]} :
           n \in 0..MaxSearched}

\* A variant of the filter test that accepts a candidate matching one key.
matches_filters_any(metadata, filters) ==
    \/ filters = NoMetadata
    \/ filters.source # None /\ metadata.source = filters.source
    \/ filters.lang # None /\ metadata.lang = filters.lang

\* matches_filters, lines 88-94
matches_filters(metadata, filters) ==
    /\ filters.source # None => metadata.source = filters.source
    /\ filters.lang # None => metadata.lang = filters.lang

RECURSIVE dot_product(_, _)
dot_product(vec_a, vec_b) ==
    IF vec_a = <<>> THEN 0
    ELSE Head(vec_a) * Head(vec_b) + dot_product(Tail(vec_a), Tail(vec_b))

\* cosine_similarity, lines 96-112
cosine_similarity(vec_a, vec_b) ==
    IF Len(vec_a) # Len(vec_b) \/ vec_a = <<>>
    THEN [dot |-> 0, norms |-> 1]
    ELSE LET norm_a == dot_product(vec_a, vec_a)
             norm_b == dot_product(vec_b, vec_b)
         IN  IF norm_a = 0 \/ norm_b = 0
             THEN [dot |-> 0, norms |-> 1]
             ELSE [dot |-> dot_product(vec_a, vec_b),
                   norms |-> norm_a * norm_b]

\* the order of two similarities: d1 / sqrt(n1) < d2 / sqrt(n2)
SignedSquare(d) == IF d < 0 THEN 0 - d * d ELSE d * d

score_less(s1, s2) ==
    SignedSquare(s1.dot) * s2.norms < SignedSquare(s2.dot) * s1.norms

\* scored.sort(key=score, reverse=True): a stable sort, so items of equal
\* score keep their order
RECURSIVE insert_by_score(_, _)
insert_by_score(sorted, item) ==
    IF sorted = <<>> THEN <<item>>
    ELSE IF score_less(Head(sorted).score, item.score)
         THEN <<item>> \o sorted
         ELSE <<Head(sorted)>> \o insert_by_score(Tail(sorted), item)

RECURSIVE sort_by_score(_, _)
sort_by_score(sorted, scored) ==
    IF scored = <<>> THEN sorted
    ELSE sort_by_score(insert_by_score(sorted, Head(scored)), Tail(scored))

\* scored[:top_k] for top_k >= 0
slice_top_k(scored, top_k) ==
    SubSeq(scored, 1, Min(top_k, Len(scored)))

\* InMemoryVectorDBStorageLayer.search_by_similarity
search_by_similarity(store, embedding, top_k, filters) ==
    LET candidates == SelectSeq(store,
                         LAMBDA emb : matches_filters(emb.metadata, filters))
        scored == [i \in 1..Len(candidates) |->
                     [score |-> cosine_similarity(embedding,
                                                  candidates[i].embedding),
                      emb |-> candidates[i]]]
        top == slice_top_k(sort_by_score(<<>>, scored), top_k)
        positive == SelectSeq(top, LAMBDA item : item.score.dot > 0)
    IN  [i \in 1..Len(positive) |-> positive[i].emb]

\* one search_by_similarity call; a search leaves the store as it is, so
\* the searches of a store are each made from the store's initial state
SearchBySimilarity(embedding, top_k, filters) ==
    /\ UNCHANGED notStore
    /\ ~sres.searched
    /\ sres' = [searched |-> TRUE, embedding |-> embedding, top_k |-> top_k,
                filters |-> filters,
                results |-> search_by_similarity(vstore, embedding, top_k,
                                                 filters)]
    /\ UNCHANGED <<vstore, vnext, ecall>>

InitSearch ==
    /\ vstore \in StoredEmbeddings
    /\ vnext = Len(vstore) + 1
    /\ ecall = NoEmbedCall
    /\ sres = NoSearch

NextSearch ==
    \E embedding \in SearchVectors, top_k \in 1..MaxTopK,
       filters \in SearchFilters :
        SearchBySimilarity(embedding, top_k, filters)

-----------------------------------------------------------------------------
(* Prompt assembly: CitationFormatter, ContextAssembler and                *)
(* PromptAssembler.construct_prompt (prompt_services.py).  A text is the    *)
(* sequence of its whitespace-separated words, which is what TokenCounter   *)
(* counts and what the truncation cuts; a word carries the citation index   *)
(* or the chunk it comes from.                                              *)

Word(w, n) == [w |-> w, n |-> n]

\* the retrieved chunks of a request: the i-th chunk passed has chunk_id i,
\* any rank and a content of some words; no chunk has source metadata
RetrievedChunks ==
    UNION {{[i \in 1..n |-> [chunk_id |-> i, rank |-> pick[i][1],
                             content_words |-> pick[i][2]]] :
               pick \in [1..n -> (1..MaxPromptChunks) \X (1..MaxContentWords)]} :
           n \in 0..MaxPromptChunks}

\* TokenCounter.count of a non-empty text
count(text) == Max(1, Len(text))

\* CitationFormatter.format_chunk: "[Source N], File: unknown\n<content>\n"
format_chunk(chunk, citation_index) ==
    <<Word("[Source", 0), Word("N],", citation_index), Word("File:", 0),
      Word("unknown", 0)>>
    \o [i \in 1..chunk.content_words |-> Word("content", chunk.chunk_id)]

\* sorted(chunks, key=lambda c: (c.rank, -c.similarity_score)), a stable
\* sort; the chunks of a request have one similarity_score
RECURSIVE insert_by_rank(_, _)
insert_by_rank(sorted, chunk) ==
    IF sorted = <<>> THEN <<chunk>>
    ELSE IF chunk.rank < Head(sorted).rank
         THEN <<chunk>> \o sorted
         ELSE <<Head(sorted)>> \o insert_by_rank(Tail(sorted), chunk)

RECURSIVE sort_by_rank(_, _)
sort_by_rank(sorted, chunks) ==
    IF chunks = <<>> THEN sorted
    ELSE sort_by_rank(insert_by_rank(sorted, Head(chunks)), Tail(chunks))

\* words[:n] for n >= 0
first_words(words, n) == SubSeq(words, 1, Min(n, Len(words)))

\* ContextAssembler.assemble, lines 178-206: the loop over the sorted
\* chunks, from the given chunk on
RECURSIVE assemble_from(_, _, _, _)
assemble_from(sorted_chunks, remaining, parts, used_indices) ==
    IF sorted_chunks = <<>>
    THEN [context |-> parts, used_indices |-> used_indices]
    ELSE LET citation_index == Len(used_indices) + 1
             formatted == format_chunk(Head(sorted_chunks), citation_index)
             tokens == count(formatted)
         IN  IF tokens <= remaining
             THEN assemble_from(Tail(sorted_chunks), remaining - tokens,
                                parts \o formatted,
                                Append(used_indices, citation_index))
             ELSE IF remaining > 0
                  THEN LET max_tokens_for_truncated == Max(0, remaining - 1)
                           cut == first_words(formatted,
                                              max_tokens_for_truncated)
                           truncated_words ==
                               IF cut # <<>> THEN cut
                               ELSE first_words(formatted, 1)
                           truncated_text ==
                               Append(truncated_words, Word("[...]", 0))
                       IN  IF count(truncated_text) <= remaining
                           THEN [context |-> parts \o truncated_text,
                                 used_indices |->
                                     Append(used_indices, citation_index)]
                           ELSE [context |-> parts,
                                 used_indices |-> used_indices]
                  ELSE [context |-> parts, used_indices |-> used_indices]

\* ContextAssembler.assemble
assemble(chunks, available_tokens) ==
    IF available_tokens <= 0 \/ chunks = <<>>
    THEN [context |-> <<>>, used_indices |-> <<>>]
    ELSE assemble_from(sort_by_rank(<<>>, chunks), available_tokens,
                       <<>>, <<>>)

\* CitationFormatter.build_citation_map: zip(used_indices, chunks), the key
\* being the index and the value the chunk's chunk_id
build_citation_map(chunks, used_indices) ==
    LET n == Min(Len(used_indices), Len(chunks))
    IN  [index \in {used_indices[i] : i \in 1..n} |->
            chunks[CHOOSE i \in 1..n :
                      /\ used_indices[i] = index
                      /\ \A j \in (i + 1)..n : used_indices[j] # index].chunk_id]

\* construct_prompt, lines 291-301: the user message
user_message_of(context) ==
    <<Word("---RETRIEVED", 0), Word("CONTEXT---", 0)>>
    \o (IF context # <<>> THEN context
        ELSE <<Word("No relevant context was retrieved.", 0)>>)
    \o <<Word("---USER", 0), Word("QUERY---", 0), Word("query", 0)>>

NoPromptResponse == [built |-> FALSE, raised |-> FALSE, user_message |-> <<>>,
                     citation_map |-> <<>>, used_indices |-> <<>>]

\* PromptAssembler.construct_prompt; allocate raises ValueError when the
\* fixed parts of the prompt exceed the context window
ConstructPrompt ==
    /\ UNCHANGED notPrompt
    /\ preq.pending
    /\ preq' = [preq EXCEPT !.pending = FALSE]
    /\ IF ~preq.fits_window
       THEN presp' = [NoPromptResponse EXCEPT !.raised = TRUE]
       ELSE LET a == assemble(preq.retrieved_chunks,
                              preq.available_for_context)
            IN  presp' = [built |-> TRUE, raised |-> FALSE,
                          user_message |-> user_message_of(a.context),
                          citation_map |->
                              build_citation_map(preq.retrieved_chunks,
                                                 a.used_indices),
                          used_indices |-> a.used_indices]

InitPromptIdle ==
    /\ preq = [pending |-> FALSE, retrieved_chunks |-> <<>>,
               available_for_context |-> 0, fits_window |-> FALSE]
    /\ presp = NoPromptResponse

InitPrompt ==
    /\ preq \in [pending : {TRUE}, retrieved_chunks : RetrievedChunks,
                 available_for_context : 0..MaxBudget, fits_window : BOOLEAN]
    /\ presp = NoPromptResponse

NextPrompt == ConstructPrompt

-----------------------------------------------------------------------------
(* Answer post-processing: CitationExtractor, CitationValidator and        *)
(* AnswerProcessor.process (generation_services.py).  An answer is a        *)
(* sequence of pieces; a piece is the digit string d of a "[Source d]"      *)
(* marker, or <<>> for text that holds no marker.  A citation_map entry is  *)
(* reduced to its "chunk_id" string.                                        *)

AnswerPieces == {<<>>} \cup {<<d>> : d \in 0..MaxSource} \cup {<<0, 1>>}

AnswerTexts == UNION {[1..n -> AnswerPieces] : n \in 0..MaxAnswerLen}

\* the chunk_id strings of a citation_map: two UUIDs, the empty string and
\* a string that is no UUID
ChunkIdStrings == {"c1", "c2", "", "not-a-uuid"}

\* UUID(chunk_id_str) does not raise
is_uuid(chunk_id_str) == chunk_id_str \in {"c1", "c2"}

CitationMaps ==
    UNION {[keys -> ChunkIdStrings] : keys \in SUBSET (1..(MaxSource - 1))}

\* int(index_str) for a string of decimal digits
RECURSIVE int_of(_)
int_of(index_str) ==
    IF index_str = <<>> THEN 0
    ELSE 10 * int_of(SubSeq(index_str, 1, Len(index_str) - 1))
         + index_str[Len(index_str)]

\* CitationExtractor.extract_citations: index -> positions of its markers
extract_citations(answer_text) ==
    LET matches == {i \in 1..Len(answer_text) : answer_text[i] # <<>>}
        kept == {i \in matches : int_of(answer_text[i]) > 0}
    IN  [index \in {int_of(answer_text[i]) : i \in kept} |->
            {i \in kept : int_of(answer_text[i]) = index}]

\* sorted(keys) of a set of integers
RECURSIVE sorted_keys(_)
sorted_keys(keys) ==
    IF keys = {} THEN <<>>
    ELSE LET least == CHOOSE k \in keys : \A other \in keys : k <= other
         IN  <<least>> \o sorted_keys(keys \ {least})

\* CitationValidator.validate, lines 80-133: the loop from the given index on
RECURSIVE validate_from(_, _, _, _)
validate_from(indices, citation_map, citations, warnings) ==
    IF indices = <<>> THEN [citations |-> citations, warnings |-> warnings]
    ELSE LET index == Head(indices)
             rest == Tail(indices)
         IN  IF index \notin DOMAIN citation_map
             THEN validate_from(rest, citation_map, citations,
                      Append(warnings,
                             [text |-> "Missing citation", index |-> index]))
             ELSE IF citation_map[index] = ""
             THEN validate_from(rest, citation_map, citations,
                      Append(warnings,
                             [text |-> "Missing chunk_id", index |-> index]))
             ELSE IF ~is_uuid(citation_map[index])
             THEN validate_from(rest, citation_map, citations,
                      Append(warnings,
                             [text |-> "Invalid chunk_id", index |-> index]))
             ELSE validate_from(rest, citation_map,
                      Append(citations,
                             [source_index |-> index,
                              chunk_id |-> citation_map[index]]),
                      warnings)

\* a validate that cites the first retrieved chunk for an index the
\* citation_map does not hold, next to the warning
validate_citing_unmapped(extracted_citations, citation_map) ==
    LET v == validate_from(sorted_keys(DOMAIN extracted_citations),
                           citation_map, <<>>, <<>>)
        unmapped == sorted_keys(DOMAIN extracted_citations
                                \ DOMAIN citation_map)
    IN  [citations |-> v.citations
                       \o [i \in 1..Len(unmapped) |->
                              [source_index |-> unmapped[i],
                               chunk_id |-> "c1"]],
         warnings |-> v.warnings]

\* CitationValidator.validate
validate(extracted_citations, citation_map) ==
    validate_from(sorted_keys(DOMAIN extracted_citations), citation_map,
                  <<>>, <<>>)

\* AnswerProcessor.process, lines 186-207: the used_chunks loop
RECURSIVE used_chunks_from(_, _, _, _, _)
used_chunks_from(indices, citation_map, retrieved_chunks, seen_chunk_ids, used_chunks) ==
    IF indices = <<>> THEN used_chunks
    ELSE LET chunk_id_str == citation_map[Head(indices)]
             rest == Tail(indices)
         IN  IF chunk_id_str = "" \/ ~is_uuid(chunk_id_str)
                \/ chunk_id_str \in seen_chunk_ids
             THEN used_chunks_from(rest, citation_map, retrieved_chunks,
                                   seen_chunk_ids, used_chunks)
             ELSE used_chunks_from(rest, citation_map, retrieved_chunks,
                      seen_chunk_ids \cup {chunk_id_str},
                      Append(used_chunks,
                             [chunk_id |-> chunk_id_str,
                              retrieved |->
                                  chunk_id_str \in retrieved_chunks]))

\* AnswerProcessor.process
process(llm_response, citation_map, retrieved_chunks) ==
    LET extracted == extract_citations(llm_response)
        v == validate(extracted, citation_map)
    IN  [answer_text |-> llm_response,
         citations |-> v.citations,
         used_chunks |-> used_chunks_from(sorted_keys(DOMAIN citation_map),
                             citation_map, retrieved_chunks, {}, <<>>),
         warnings |-> v.warnings]

NoAnswer == [processed |-> FALSE, answer_text |-> <<>>, citations |-> <<>>,
             used_chunks |-> <<>>, warnings |-> <<>>]

\* one call of AnswerProcessor.process
ProcessAnswer ==
    /\ UNCHANGED notAnswer
    /\ areq.pending
    /\ areq' = [areq EXCEPT !.pending = FALSE]
    /\ LET r == process(areq.llm_response, areq.citation_map,
                        areq.retrieved_chunks)
       IN  ares' = [processed |-> TRUE, answer_text |-> r.answer_text,
                    citations |-> r.citations, used_chunks |-> r.used_chunks,
                    warnings |-> r.warnings]

InitAnswerIdle ==
    /\ areq = [pending |-> FALSE, llm_response |-> <<>>,
               citation_map |-> <<>>, retrieved_chunks |-> {}]
    /\ ares = NoAnswer

InitAnswer ==
    /\ areq \in [pending : {TRUE}, llm_response : AnswerTexts,
                 citation_map : CitationMaps,
                 retrieved_chunks : SUBSET {"c1", "c2"}]
    /\ ares = NoAnswer

NextAnswer == ProcessAnswer

-----------------------------------------------------------------------------
(* Debug artifacts: ArtifactLogger, InMemoryArtifactStorage and the        *)
(* /api/debug/artifacts endpoint (artifact_logger.py, artifact_storage.py,  *)
(* endpoints.py).  Every log_* call hands its store to a task of the event  *)
(* loop; the loop runs its ready tasks in the order they were created, and  *)
(* a store of the in-memory storage runs to its end without suspending.     *)

ArtifactQueries == {1, 2}

TraceIds == {"t1", "t2"}

\* the artifacts of one query, in the order the pipeline logs them
ArtifactTypes == <<"query", "retrieved_chunks", "prompt", "answer", "response">>

\* DEBUG_ARTIFACTS_TOKEN: unset, or a token
DebugTokens == {"", "s3cret"}

\* the Authorization header of a request: absent, the bearer token, the
\* token without the scheme, another scheme spelling, another token
AuthHeaders == {"", "Bearer s3cret", "s3cret", "bearer s3cret", "Bearer other"}

\* f"Bearer {expected_token}"
bearer(expected_token) ==
    IF expected_token = "s3cret" THEN "Bearer s3cret" ELSE "Bearer "

TotalLogged == apos[1] + apos[2]

\* the ready task the event loop runs next: the last one created
next_ready_lifo(ready) == Len(ready)

\* the ready task the event loop runs next: the first one created
next_ready(ready) == 1

remove_at(seq, i) == SubSeq(seq, 1, i - 1) \o SubSeq(seq, i + 1, Len(seq))

\* a log_* call of query q: nothing when debug is off, else _store_artifact
\* creates the task that stores the artifact
LogArtifact(q) ==
    /\ UNCHANGED notArtifact
    /\ apos[q] < Len(ArtifactTypes)
    /\ TotalLogged < MaxLogged
    /\ apos' = [apos EXCEPT ![q] = @ + 1]
    /\ IF ~acfg.enabled
       THEN UNCHANGED <<alogged, aready>>
       ELSE LET artifact == [type |-> ArtifactTypes[apos[q] + 1], query |-> q]
            IN  /\ alogged' = [alogged EXCEPT ![atrace[q]] =
                                  Append(@, artifact)]
                /\ aready' = Append(aready,
                                 [trace_id |-> atrace[q], artifact |-> artifact])
    /\ UNCHANGED <<acfg, atrace, artifacts, dres>>

\* the event loop runs one _store task: InMemoryArtifactStorage.store
RunStoreTask ==
    /\ UNCHANGED notArtifact
    /\ aready # <<>>
    /\ LET i == next_ready(aready)
           task == aready[i]
       IN  /\ artifacts' = [artifacts EXCEPT ![task.trace_id] =
                               Append(@, task.artifact)]
           /\ aready' = remove_at(aready, i)
    /\ UNCHANGED <<acfg, atrace, apos, alogged, dres>>

\* InMemoryArtifactStorage.get_by_trace_id
get_by_trace_id(store, trace_id) == store[trace_id]

\* a handler that accepts the token without the "Bearer " scheme as well
debug_artifacts_bare_token(cfg, store, trace_id, auth_header) ==
    IF ~cfg.enabled
    THEN [status |-> 404, trace_id |-> trace_id, artifacts |-> <<>>]
    ELSE IF cfg.environment = "prod" /\ cfg.token = ""
    THEN [status |-> 404, trace_id |-> trace_id, artifacts |-> <<>>]
    ELSE IF cfg.token # "" /\ auth_header \notin {bearer(cfg.token), cfg.token}
    THEN [status |-> 403, trace_id |-> trace_id, artifacts |-> <<>>]
    ELSE [status |-> 200, trace_id |-> trace_id,
          artifacts |-> get_by_trace_id(store, trace_id)]

\* the debug_artifacts handler: status and body of its response
debug_artifacts(cfg, store, trace_id, auth_header) ==
    IF ~cfg.enabled
    THEN [status |-> 404, trace_id |-> trace_id, artifacts |-> <<>>]
    ELSE IF cfg.environment = "prod" /\ cfg.token = ""
    THEN [status |-> 404, trace_id |-> trace_id, artifacts |-> <<>>]
    ELSE IF cfg.token # "" /\ auth_header # bearer(cfg.token)
    THEN [status |-> 403, trace_id |-> trace_id, artifacts |-> <<>>]
    ELSE [status |-> 200, trace_id |-> trace_id,
          artifacts |-> get_by_trace_id(store, trace_id)]

NoDebugResponse == [status |-> 0, trace_id |-> "t1", artifacts |-> <<>>,
                    auth_header |-> ""]

\* GET /api/debug/artifacts?trace_id=...
DebugArtifacts(trace_id, auth_header) ==
    /\ UNCHANGED notArtifact
    /\ dres.status = 0
    /\ LET r == debug_artifacts(acfg, artifacts, trace_id, auth_header)
       IN  dres' = [status |-> r.status, trace_id |-> r.trace_id,
                    artifacts |-> r.artifacts, auth_header |-> auth_header]
    /\ UNCHANGED <<acfg, atrace, apos, alogged, aready, artifacts>>

InitArtifactIdle ==
    /\ acfg = [enabled |-> FALSE, environment |-> "dev", token |-> ""]
    /\ atrace = [q \in ArtifactQueries |-> "t1"]
    /\ apos = [q \in ArtifactQueries |-> Len(ArtifactTypes)]
    /\ alogged = [t \in TraceIds |-> <<>>]
    /\ aready = <<>>
    /\ artifacts = [t \in TraceIds |-> <<>>]
    /\ dres = [NoDebugResponse EXCEPT !.status = 404]

InitArtifact ==
    /\ acfg \in [enabled : BOOLEAN, environment : {"dev", "prod"},
                 token : DebugTokens]
    /\ atrace \in [ArtifactQueries -> TraceIds]
    /\ apos = [q \in ArtifactQueries |-> 0]
    /\ alogged = [t \in TraceIds |-> <<>>]
    /\ aready = <<>>
    /\ artifacts = [t \in TraceIds |-> <<>>]
    /\ dres = NoDebugResponse

NextArtifact ==
    \/ \E q \in ArtifactQueries : LogArtifact(q)
    \/ RunStoreTask
    \/ \E trace_id \in TraceIds, auth_header \in AuthHeaders :
           DebugArtifacts(trace_id, auth_header)

-----------------------------------------------------------------------------
(* Query errors: how query_endpoint (endpoints.py), GenerationErrorMapper   *)
(* (generation_services.py) and global_exception_handler                    *)
(* (error_handler.py) turn an exception into a response.                    *)

\* the exception classes of exceptions.py and embedding_provider.py with
\* their base class
BaseClass ==
    [ValidationError |-> "BadRequestError",
     BadRequestError |-> "RAGException",
     QueryTimeoutError |-> "ServiceUnavailableError",
     ServiceUnavailableError |-> "RAGException",
     RateLimitError |-> "RAGException",
     RAGException |-> "Exception",
     EmbeddingProviderError |-> "Exception",
     ValueError |-> "Exception",
     Exception |-> "BaseException"]

RECURSIVE isinstance(_, _)
isinstance(class, of) ==
    IF class = of THEN TRUE
    ELSE IF class \notin DOMAIN BaseClass THEN FALSE
    ELSE isinstance(BaseClass[class], of)

\* status_code and error_code an exception of the class carries
status_code(class) ==
    CASE class = "ValidationError" -> 422
      [] class = "BadRequestError" -> 400
      [] class = "QueryTimeoutError" -> 408
      [] class = "ServiceUnavailableError" -> 503
      [] class = "RateLimitError" -> 429
      [] OTHER -> 500

error_code(class) ==
    CASE class = "ValidationError" -> "validation"
      [] class = "QueryTimeoutError" -> "timeout"
      [] OTHER -> class

\* InputValidator limits
MAX_QUERY_LENGTH == 5000
TOP_K_MIN == 1
TOP_K_MAX == 100

\* payloads the QueryRequest schema lets through: 1 to 5000 characters,
\* top_k in 1..100; a query may be all whitespace or hold a forbidden pattern
QueryPayloads ==
    {p \in [length : {1, 12, MAX_QUERY_LENGTH}, blank : BOOLEAN,
            forbidden : BOOLEAN, top_k : {TOP_K_MIN, 10, TOP_K_MAX}] :
        ~(p.blank /\ p.forbidden)}

\* InputValidator.validate_request: TRUE when it returns, FALSE when it
\* raises ValidationError
validate_request(payload) ==
    /\ ~(payload.length = 0 \/ payload.blank)
    /\ ~(payload.length > MAX_QUERY_LENGTH)
    /\ ~payload.forbidden
    /\ ~(payload.top_k < TOP_K_MIN \/ payload.top_k > TOP_K_MAX)

\* what generate_answer can raise in each of its stages: the check before
\* every stage raises QueryTimeoutError; embedding, retrieval, prompt
\* budget and the LLM provider raise the others
GenerationRaises(stage) ==
    {"QueryTimeoutError"} \cup
    CASE stage = 1 -> {"EmbeddingProviderError", "ValueError", "Exception"}
      [] stage = 2 -> {"ValueError"}
      [] stage = 3 -> {"ValueError", "Exception", "RateLimitError",
                       "ServiceUnavailableError", "BadRequestError",
                       "RAGException"}
      [] OTHER -> {"Exception"}

\* GenerationErrorMapper.map_error
map_error(class) ==
    IF isinstance(class, "RateLimitError")
    THEN [status |-> 503, error_type |-> "rate_limit"]
    ELSE IF isinstance(class, "ServiceUnavailableError")
    THEN [status |-> 503, error_type |-> "service_unavailable"]
    ELSE IF isinstance(class, "BadRequestError")
            \/ isinstance(class, "ValueError")
    THEN [status |-> 400, error_type |-> "invalid_request"]
    ELSE IF isinstance(class, "RAGException")
    THEN [status |-> status_code(class), error_type |-> error_code(class)]
    ELSE [status |-> 503, error_type |-> "provider_error"]

\* global_exception_handler
global_exception_handler(class) ==
    IF isinstance(class, "RAGException")
    THEN [status |-> status_code(class), error_type |-> error_code(class)]
    ELSE [status |-> 500, error_type |-> class]

\* the except clauses around generate_answer without the one that
\* re-raises QueryTimeoutError
except_clause_without_timeout(class) ==
    IF isinstance(class, "EmbeddingProviderError") THEN "stub"
    ELSE "map"

\* endpoints.py 646-669: the except clause that handles the exception
except_clause(class) ==
    IF isinstance(class, "EmbeddingProviderError") THEN "stub"
    ELSE IF isinstance(class, "QueryTimeoutError") THEN "reraise"
    ELSE "map"

NoException == [class |-> "None", stage |-> 0]

NoErrorResponse == [status |-> 0, error_type |-> "None", mapped |-> FALSE]

Respond(status, error_type, mapped) ==
    /\ eresp' = [status |-> status, error_type |-> error_type,
                 mapped |-> mapped]
    /\ epc' = "responded"

\* endpoints.py 518-523: the input validation before the pipeline
ValidateRequest ==
    /\ UNCHANGED notError
    /\ epc = "validate"
    /\ IF validate_request(ereq)
       THEN /\ epc' = "generate"
            /\ UNCHANGED <<eraised, eresp>>
       ELSE LET r == global_exception_handler("ValidationError")
            IN  /\ eraised' = [class |-> "ValidationError", stage |-> 0]
                /\ Respond(r.status, r.error_type, FALSE)
    /\ UNCHANGED ereq

\* endpoints.py 639-669: generate_answer raises in one of its stages
GenerateAnswerRaises(stage, class) ==
    /\ UNCHANGED notError
    /\ epc = "generate"
    /\ class \in GenerationRaises(stage)
    /\ eraised' = [class |-> class, stage |-> stage]
    /\ CASE except_clause(class) = "stub" -> Respond(200, "None", FALSE)
         [] except_clause(class) = "reraise" ->
                LET r == global_exception_handler(class)
                IN  Respond(r.status, r.error_type, FALSE)
         [] OTHER ->
                LET r == map_error(class)
                IN  Respond(r.status, r.error_type, TRUE)
    /\ UNCHANGED ereq

\* endpoints.py 639-645: generate_answer returns
GenerateAnswerReturns ==
    /\ UNCHANGED notError
    /\ epc = "generate"
    /\ epc' = "retrieval"
    /\ UNCHANGED <<ereq, eraised, eresp>>

\* endpoints.py 671-790: the second retrieval and the response; it raises
\* what stage 1 raises apart from the timeout, and only
\* EmbeddingProviderError is caught
EndpointRetrieval(class) ==
    /\ UNCHANGED notError
    /\ epc = "retrieval"
    /\ class \in {"None"} \cup (GenerationRaises(1) \ {"QueryTimeoutError"})
    /\ IF class \in {"None", "EmbeddingProviderError"}
       THEN /\ Respond(200, "None", FALSE)
            /\ eraised' = IF class = "None" THEN eraised
                          ELSE [class |-> class, stage |-> 5]
       ELSE LET r == global_exception_handler(class)
            IN  /\ eraised' = [class |-> class, stage |-> 5]
                /\ Respond(r.status, r.error_type, FALSE)
    /\ UNCHANGED ereq

InitErrorIdle ==
    /\ epc = "off"
    /\ ereq = [length |-> 1, blank |-> FALSE, forbidden |-> FALSE,
               top_k |-> 1]
    /\ eraised = NoException
    /\ eresp = NoErrorResponse

InitError ==
    /\ epc = "validate"
    /\ ereq \in QueryPayloads
    /\ eraised = NoException
    /\ eresp = NoErrorResponse

NextError ==
    \/ ValidateRequest
    \/ \E stage \in 1..4, class \in DOMAIN BaseClass :
           GenerateAnswerRaises(stage, class)
    \/ GenerateAnswerReturns
    \/ \E class \in {"None"} \cup DOMAIN BaseClass : EndpointRetrieval(class)

-----------------------------------------------------------------------------
(* Sliding-window chunking: SlidingWindowChunker.chunk                      *)
(* (chunkers/sliding_window_chunker.py).  A text is a sequence of           *)
(* characters; " " is the whitespace character.                             *)

Characters == {"a", "b", " "}

Texts == UNION {[1..n -> Characters] : n \in 0..MaxTextLen}

\* text[start:end] with 0 <= start <= end <= len(text)
slice(text, start, end) == SubSeq(text, start + 1, end)

\* chunk_text.strip() is not empty
strip_nonempty(chunk_text) ==
    \E i \in 1..Len(chunk_text) : chunk_text[i] # " "

\* lines 57-67: the while loop, from the given start on
RECURSIVE chunk_from(_, _, _, _, _)
chunk_from(text, chunk_size, overlap, start, chunks) ==
    IF ~(start < Len(text)) THEN chunks
    ELSE LET end == Min(start + chunk_size, Len(text))
             chunk_text == slice(text, start, end)
         IN  chunk_from(text, chunk_size, overlap,
                        start + (chunk_size - overlap),
                        IF strip_nonempty(chunk_text)
                        THEN Append(chunks, [content |-> chunk_text,
                                             start |-> start, end |-> end])
                        ELSE chunks)

\* SlidingWindowChunker.chunk
chunk(text, chunk_size, overlap) ==
    IF text = <<>> \/ chunk_size <= 0
    THEN [raised |-> FALSE, chunks |-> <<>>]
    ELSE IF overlap < 0 \/ overlap >= chunk_size
    THEN [raised |-> TRUE, chunks |-> <<>>]
    ELSE [raised |-> FALSE,
          chunks |-> chunk_from(text, chunk_size, overlap, 0, <<>>)]

NoChunking == [returned |-> FALSE, raised |-> FALSE, chunks |-> <<>>]

\* one call of SlidingWindowChunker.chunk
Chunk ==
    /\ UNCHANGED notChunker
    /\ kreq.pending
    /\ kreq' = [kreq EXCEPT !.pending = FALSE]
    /\ LET r == chunk(kreq.text, kreq.chunk_size, kreq.overlap)
       IN  kres' = [returned |-> ~r.raised, raised |-> r.raised,
                    chunks |-> r.chunks]

InitChunkerIdle ==
    /\ kreq = [pending |-> FALSE, text |-> <<>>, chunk_size |-> 0,
               overlap |-> 0]
    /\ kres = NoChunking

InitChunker ==
    /\ kreq \in [pending : {TRUE}, text : Texts,
                 chunk_size : 0..MaxChunkSize, overlap : -1..MaxChunkSize]
    /\ kres = NoChunking

NextChunker == Chunk

-----------------------------------------------------------------------------
(* Serving /api/query: query_endpoint (endpoints.py) calls                 *)
(* GenerationOrchestrator.generate_answer, which retrieves, builds the      *)
(* prompt, generates and post-processes, and then runs                      *)
(* QueryOrchestrator.query a second time for the retrieved_chunks of the    *)
(* response.  The vector store and the query embedding cache are the        *)
(* module-level objects the ingestion endpoints and every query share.  The *)
(* coroutine is suspended only where query awaits the embedding provider;   *)
(* other coroutines of the event loop run only then.                        *)

\* str(chunk.chunk_id) of the chunks of this model
ChunkIdStr == <<"c1", "c2">>

\* the numeric vector of a query embedding
query_vector(v) == IF v = "v1" THEN <<1, 0>> ELSE <<1, 1>>

\* the vectors the provider returns for the chunks an ingestion stores
IngestedVectors == {<<1, 0>>, <<1, 1>>}

\* the answers the language model gives
ServeAnswers == {<<>>, <<<<1>>>>, <<<<2>>>>}

NoServe == [pc |-> "idle", query_text |-> None, top_k |-> 0,
            include_sources |-> FALSE, query_embedding |-> None,
            retrieved_chunks |-> <<>>, citations |-> <<>>,
            used_chunks |-> <<>>]

NoQueryResponse == [returned |-> FALSE, citations |-> <<>>,
                    retrieved_chunks |-> <<>>, used_chunks |-> <<>>]

\* where the coroutine has yielded to the event loop
ServeSuspended == qserve.pc \in {"idle", "await_embed_1", "await_embed_2"}

\* RetrieverService.retrieve: the chunks of the embeddings found, ranked
\* from 1 in the order of the search
retrieve(store, query_embedding, top_k) ==
    LET embeddings == search_by_similarity(store,
                          query_vector(query_embedding), top_k, NoMetadata)
    IN  [index \in 1..Len(embeddings) |->
            [chunk_id |-> embeddings[index].chunk_id, rank |-> index,
             content_words |-> 1]]

\* query_endpoint, lines 506-644, into generate_answer and the first
\* query: a valid request arrives
ServeEnter(query_text, top_k, include_sources) ==
    /\ UNCHANGED <<notServeShared, storeVars>>
    /\ qserve.pc = "idle"
    /\ LET got == cache_get(cstore, query_text, cnow)
       IN  /\ cstore' = got.store
           /\ qserve' = [NoServe EXCEPT
                  !.pc = IF got.value # None THEN "retrieve_1"
                         ELSE "await_embed_1",
                  !.query_text = query_text, !.top_k = top_k,
                  !.include_sources = include_sources,
                  !.query_embedding = got.value]
    /\ qresponse' = NoQueryResponse
    /\ UNCHANGED <<cnow, creq, clog>>

\* query, lines 184-188: embed_query returns and the vector is cached
ServeEmbedReturns ==
    /\ UNCHANGED <<notServeShared, storeVars>>
    /\ qserve.pc \in {"await_embed_1", "await_embed_2"}
    /\ LET v == QueryVector(qserve.query_text)
       IN  /\ cstore' = cache_set(cstore, qserve.query_text, v, cnow)
           /\ qserve' = [qserve EXCEPT
                  !.pc = IF qserve.pc = "await_embed_1" THEN "retrieve_1"
                         ELSE "retrieve_2",
                  !.query_embedding = v]
    /\ UNCHANGED <<cnow, creq, clog, qresponse>>

\* generate_answer, lines 314-341: the first retrieval and the prompt
ServeRetrieve ==
    /\ UNCHANGED <<notServeShared, storeVars, cacheVars>>
    /\ qserve.pc = "retrieve_1"
    /\ qserve' = [qserve EXCEPT
           !.pc = "generate",
           !.retrieved_chunks =
               retrieve(vstore, qserve.query_embedding, qserve.top_k)]
    /\ UNCHANGED qresponse

\* generate_answer, lines 341-463, and query_endpoint, lines 671-684: the
\* prompt is built, the model answers, the answer is processed and the
\* endpoint calls query again, which reads the cache
ServeGenerate(llm_response) ==
    /\ UNCHANGED <<notServeShared, storeVars>>
    /\ qserve.pc = "generate"
    /\ LET chunks == qserve.retrieved_chunks
           a == assemble(chunks, MaxBudget)
           ids == build_citation_map(chunks, a.used_indices)
           citation_map == [index \in DOMAIN ids |-> ChunkIdStr[ids[index]]]
           r == process(llm_response, citation_map,
                        {ChunkIdStr[chunks[i].chunk_id] :
                             i \in 1..Len(chunks)})
           got == cache_get(cstore, qserve.query_text, cnow)
       IN  /\ cstore' = got.store
           /\ qserve' = [qserve EXCEPT
                  !.pc = IF got.value # None THEN "retrieve_2"
                         ELSE "await_embed_2",
                  !.query_embedding = got.value,
                  !.citations = [i \in 1..Len(r.citations) |->
                                    r.citations[i].chunk_id],
                  !.used_chunks = [i \in 1..Len(r.used_chunks) |->
                                      r.used_chunks[i].chunk_id]]
    /\ UNCHANGED <<cnow, creq, clog, qresponse>>

\* query_endpoint, lines 684-790: the second retrieval and the response
ServeRespond ==
    /\ UNCHANGED <<notServeShared, storeVars, cacheVars>>
    /\ qserve.pc = "retrieve_2"
    /\ LET internal == retrieve(vstore, qserve.query_embedding, qserve.top_k)
           retrieved_chunks_api ==
               [i \in 1..Len(internal) |-> ChunkIdStr[internal[i].chunk_id]]
           empty == retrieved_chunks_api = <<>>
       IN  qresponse' =
               [returned |-> TRUE,
                citations |-> IF empty \/ ~qserve.include_sources THEN <<>>
                              ELSE qserve.citations,
                retrieved_chunks |-> retrieved_chunks_api,
                used_chunks |-> IF empty THEN <<>> ELSE qserve.used_chunks]
    /\ qserve' = NoServe

\* an ingestion request running on the same event loop stores the embedding
\* of a chunk: embed_and_store, store_embeddings_batch
IngestionStores(embedding) ==
    /\ UNCHANGED <<notServeShared, cacheVars, serveVars>>
    /\ ServeSuspended
    /\ vnext \in DOMAIN ChunkIdStr
    /\ vstore' = store_embedding(vstore,
                     Embedding(vnext, vnext, "x", embedding, NoMetadata))
    /\ vnext' = vnext + 1
    /\ UNCHANGED <<ecall, sres>>

\* the clock advances; the language model call blocks the event loop, and
\* time passes during it as well
ServeTick ==
    /\ UNCHANGED <<notServeShared, storeVars, serveVars>>
    /\ cnow < MaxCacheClock
    /\ cnow' = cnow + 1
    /\ UNCHANGED <<cstore, creq, clog>>

InitServeIdle ==
    /\ qserve = [NoServe EXCEPT !.pc = "off"]
    /\ qresponse = NoQueryResponse

InitServe ==
    /\ qserve = NoServe
    /\ qresponse = NoQueryResponse

NextServe ==
    \/ \E query_text \in QueryTexts, top_k \in 1..MaxTopK,
          include_sources \in BOOLEAN :
          ServeEnter(query_text, top_k, include_sources)
    \/ ServeEmbedReturns
    \/ ServeRetrieve
    \/ \E llm_response \in ServeAnswers : ServeGenerate(llm_response)
    \/ ServeRespond
    \/ \E embedding \in IngestedVectors : IngestionStores(embedding)
    \/ ServeTick

-----------------------------------------------------------------------------
(* The specifications.  Each one runs one subsystem and leaves the         *)
(* variables of the others at rest.                                        *)

InitIngestIdle ==
    /\ jobs = <<>>
    /\ postgres_client = FALSE
    /\ embedding_service = FALSE
    /\ pc = "off"
    /\ run = NoRun
    /\ stage_log = <<>>
    /\ stage_result = NoStageResult
    /\ ret = NoRet
    /\ last_progress = 0

InitQueryIdle ==
    /\ qpc = "off"
    /\ qnow = 0
    /\ tm = [timeout_seconds |-> 0, start_time |-> 0, deadline |-> 0]
    /\ qlog = <<>>
    /\ qerr = NoError
    /\ qresp = -1

InitRetryIdle ==
    /\ rcfg = [max_retries |-> 0, base_backoff_seconds |-> 0]
    /\ rpc = "off"
    /\ attempts = 0
    /\ delay = 0
    /\ calls = <<>>
    /\ sleeps = <<>>

\* (error_message, error_stage) arguments of the direct update_status calls
ExternalErrors == {<<None, None>>, <<"ext", "embedding">>}

\* stage arguments of the direct update_metrics calls
MetricStages == {"storage", "other"}

InitIngest ==
    /\ jobs = <<>>
    /\ postgres_client \in BOOLEAN
    /\ embedding_service \in BOOLEAN
    /\ pc = "idle"
    /\ run = NoRun
    /\ stage_log = <<>>
    /\ stage_result = NoStageResult
    /\ ret = NoRet
    /\ last_progress = 0

\* every subsystem but the named one is at rest
OthersIdle(running) ==
    /\ IF running = "ingest" THEN TRUE ELSE InitIngestIdle
    /\ IF running = "query" THEN TRUE ELSE InitQueryIdle
    /\ IF running = "retry" THEN TRUE ELSE InitRetryIdle
    /\ IF running = "cache" THEN TRUE ELSE InitCacheIdle
    /\ IF running = "limiter" THEN TRUE ELSE InitLimiterIdle
    /\ IF running = "pdf" THEN TRUE ELSE InitPdfIdle
    /\ IF running = "store" THEN TRUE ELSE InitStoreIdle
    /\ IF running = "prompt" THEN TRUE ELSE InitPromptIdle
    /\ IF running = "answer" THEN TRUE ELSE InitAnswerIdle
    /\ IF running = "artifact" THEN TRUE ELSE InitArtifactIdle
    /\ IF running = "error" THEN TRUE ELSE InitErrorIdle
    /\ IF running = "chunker" THEN TRUE ELSE InitChunkerIdle
    /\ IF running = "serve" THEN TRUE ELSE InitServeIdle

Init == InitIngest /\ OthersIdle("ingest")

Next ==
    \/ \E j \in JobIds : CreateJob(j)
    \/ \E j \in JobIds, files \in 0..1 : Begin(j, files)
    \/ \E ok \in BOOLEAN, text \in ErrorTexts : Extraction(ok, text)
    \/ \E ok \in BOOLEAN, n \in 0..MaxChunks, text \in ErrorTexts :
          Chunking(ok, n, text)
    \/ \E ok \in BOOLEAN, text \in ErrorTexts : Storage(ok, text)
    \/ EmbeddingStart
    \/ \E dups \in 0..MaxChunks, provider \in ProviderOutcomes, text \in ErrorTexts :
          EmbeddingResume(dups, provider, text)
    \/ EmbeddingCancelled
    \/ Complete
    \/ \E j \in JobIds, status \in IngestionStatus, e \in ExternalErrors :
          UpdateStatusCall(j, status, e[1], e[2])
    \/ \E j \in JobIds, stage \in MetricStages : UpdateMetricsCall(j, stage)
    \/ \E j \in JobIds : StatusRead(j)

Spec == Init /\ [][Next]_vars

InitQuery ==
    /\ qpc = "idle"
    /\ qnow = 0
    /\ tm = [timeout_seconds |-> 0, start_time |-> 0, deadline |-> 0]
    /\ qlog = <<>>
    /\ qerr = NoError
    /\ qresp = -1

NextQuery ==
    \/ \E t \in TimeoutSettings : QueryEnter(t)
    \/ \E d \in StageDurations, ok \in BOOLEAN : Stage1Embed(d, ok)
    \/ \E d \in StageDurations, ok \in BOOLEAN : Stage1Retrieve(d, ok)
    \/ \E d \in StageDurations, ok \in BOOLEAN : Stage2Prompt(d, ok)
    \/ \E d \in StageDurations, ok \in BOOLEAN : Stage3Generate(d, ok)
    \/ \E d \in StageDurations, ok \in BOOLEAN : Stage4Post(d, ok)
    \/ \E d \in StageDurations : EndpointRespond(d)

InitQueryOnly == InitQuery /\ OthersIdle("query")

SpecQuery == InitQueryOnly /\ [][NextQuery]_vars

InitRetry ==
    /\ rcfg \in [max_retries : 1..MaxRetriesCfg,
                 base_backoff_seconds : BackoffSettings]
    /\ rpc = "idle"
    /\ attempts = 0
    /\ delay = 0
    /\ calls = <<>>
    /\ sleeps = <<>>

NextRetry ==
    \/ RetryStart
    \/ \E outcome \in CallOutcomes : CallApi(outcome)
    \/ Sleep

InitRetryOnly == InitRetry /\ OthersIdle("retry")

SpecRetry == InitRetryOnly /\ [][NextRetry]_vars

InitCacheOnly == InitCache /\ OthersIdle("cache")

SpecCache == InitCacheOnly /\ [][NextCache]_vars

InitLimiterOnly == InitLimiter /\ OthersIdle("limiter")

SpecLimiter == InitLimiterOnly /\ [][NextLimiter]_vars

InitPdfOnly == InitPdf /\ OthersIdle("pdf")

SpecPdf == InitPdfOnly /\ [][NextPdf]_vars

InitStoreOnly == InitStore /\ OthersIdle("store")

SpecStore == InitStoreOnly /\ [][NextStore]_vars

InitSearchOnly == InitSearch /\ OthersIdle("store")

SpecSearch == InitSearchOnly /\ [][NextSearch]_vars

InitPromptOnly == InitPrompt /\ OthersIdle("prompt")

SpecPrompt == InitPromptOnly /\ [][NextPrompt]_vars

InitAnswerOnly == InitAnswer /\ OthersIdle("answer")

SpecAnswer == InitAnswerOnly /\ [][NextAnswer]_vars

InitArtifactOnly == InitArtifact /\ OthersIdle("artifact")

SpecArtifact == InitArtifactOnly /\ [][NextArtifact]_vars

InitErrorOnly == InitError /\ OthersIdle("error")

SpecError == InitErrorOnly /\ [][NextError]_vars

InitChunkerOnly == InitChunker /\ OthersIdle("chunker")

SpecChunker == InitChunkerOnly /\ [][NextChunker]_vars

\* the vector store when every write goes through embed_and_store with
\* skip_duplicate_content on
NextDedup ==
    \/ \E chunks \in ChunkLists : EmbedAndStore(chunks, TRUE)
    \/ \E raises \in BOOLEAN, valid \in [1..MaxBatch -> BOOLEAN] :
          EmbedAndStoreResume(raises, valid)

SpecDedup == InitStoreOnly /\ [][NextDedup]_vars

InitServeOnly == InitServe /\ OthersIdle("serve")

SpecServe == InitServeOnly /\ [][NextServe]_vars

-----------------------------------------------------------------------------
(* Ingestion: the claims.                                                  *)

StatusRank(status) ==
    CASE status = "pending" -> 0
      [] status = "processing" -> 1
      [] OTHER -> 2

\* C1: a job's status only moves forward (pending, then processing, then
\* completed or failed): under any sequence of update_status and
\* ingest_and_store calls a completed or failed job never changes status
\* again and no job returns to pending or processing from a later state.
C1_StatusOnlyMovesForward ==
    [][\A j \in DOMAIN jobs :
          /\ StatusRank(jobs'[j].status) >= StatusRank(jobs[j].status)
          /\ jobs[j].status \in {"completed", "failed"}
                => jobs'[j].status = jobs[j].status]_vars

\* C2: every ingest_and_store call on a job that exists ends with the job
\* completed or failed, whether a stage raised, the call returned early or
\* the awaited embedding stage was interrupted.
C2_CallEndsTerminal ==
    (ret.kind \in {"returned", "raised"} /\ ret.exc # "KeyError")
        => ret.status \in {"completed", "failed"}

\* C3: within one ingest_and_store run the stages start at most once each
\* and only in the order extraction, chunking, chunk persistence, embedding;
\* when a stage starts every stage started before it has succeeded, every
\* earlier stage of the order has succeeded (chunk persistence may instead
\* have been left out because no metadata store is configured), and after a
\* stage fails no later stage is started.
C3_StagesInOrderAndGated ==
    /\ \A i, k \in 1..Len(stage_log) :
          i < k => StageIndex(stage_log[i]) < StageIndex(stage_log[k])
    /\ \A k \in 1..Len(stage_log) : \A i \in 1..(k - 1) :
          stage_result[stage_log[i]] = "ok"
    /\ \A k \in 1..Len(stage_log) : \A s \in StageNames :
          StageIndex(s) < StageIndex(stage_log[k])
             => \/ stage_result[s] = "ok"
                \/ s = "storage" /\ stage_result[s] = "none" /\ ~postgres_client
    /\ \A s \in StageNames :
          stage_result[s] # "none" => \E k \in 1..Len(stage_log) : stage_log[k] = s

\* C3 witness: all four stages were started, the embedding stage last.
C3_Witness ==
    /\ stage_log = <<"extraction", "chunking", "storage", "embedding">>
    /\ stage_result["storage"] = "ok"
    /\ stage_result["embedding"] = "running"

\* C4: when a stage raises an error, ingest_and_store does not raise: it
\* returns the job with status failed, error_stage the stage that raised and
\* error_message the text of the error.
C4_StageErrorReturnsFailedJob ==
    /\ ret.raised_stage # None
          => /\ ret.kind = "returned"
             /\ ret.status = "failed"
             /\ ret.error_stage = ret.raised_stage
             /\ ret.error_message = ret.raised_text
    /\ ret.kind = "raised" => ret.exc \in {"KeyError", "CancelledError"}

\* C4 witness: the embedding stage raised an error with an empty text after
\* an earlier call on the job had failed in another stage.
C4_Witness ==
    /\ ret.kind = "returned"
    /\ ret.raised_stage = "embedding"
    /\ ret.raised_text = ""
    /\ ret.error_message = ""

\* C5: when the embedding provider fails for the whole batch the job ends
\* failed with error_stage embedding; completed is set only when the
\* embedding stage succeeded.
C5_ProviderFailureFailsJob ==
    (ret.kind = "returned" /\ ret.provider_failed)
        => (ret.status = "failed" /\ ret.error_stage = "embedding")

\* C6: progress_percent is 0, a value in 25..99, or 100, and it is 100
\* exactly when the job is completed.
C6_ProgressRange ==
    \A j \in DOMAIN jobs :
        LET p == progress_percent(jobs[j]) IN
        /\ p = 0 \/ p \in 25..99 \/ p = 100
        /\ p = 100 <=> jobs[j].status = "completed"

\* C6 witness: a job that is not completed holds all four stage durations.
C6_Witness ==
    \E j \in DOMAIN jobs :
        /\ jobs[j].status \in {"processing", "failed"}
        /\ completed_keys \subseteq jobs[j].metrics
        /\ progress_percent(jobs[j]) = 99

\* C7: progress_percent as seen by successive status reads never decreases,
\* across every status change and metrics update applied to the job.
C7_ProgressNeverDecreases ==
    [][last_progress' >= last_progress]_vars

-----------------------------------------------------------------------------
(* Query pipeline: the claims.                                             *)

IsTimeout == qpc = "responded" /\ qerr.type = "QueryTimeoutError"

C9_LatencyWithinDeadline ==
    qpc = "responded"
        => qresp - tm.start_time <= tm.timeout_seconds * TicksPerSec + EpsilonTicks

-----------------------------------------------------------------------------
(* Embedding provider: the claims.                                         *)

\* the errors the specification calls retryable
RetryableErrors == {"http_429", "http_503", "transient"}

AllCallsFailedRetryable ==
    \A i \in 1..Len(calls) : calls[i] \in RetryableErrors

C11_OnlyServerClassRetried ==
    /\ \A i \in 1..Len(sleeps) : calls[i] \in RetryableErrors
    /\ (Len(calls) >= 1 /\ calls[1] = "ValueError") =>
          /\ Len(calls) = 1
          /\ sleeps = <<>>
          /\ rpc = "raised"

-----------------------------------------------------------------------------
(* Query embedding cache: the claims.                                      *)

\* the cache holds an unexpired entry for the text at the i-th event: some
\* earlier write of exactly that text is less than the TTL old
HoldsUnexpired(i) ==
    \E j \in 1..(i - 1) :
        /\ clog[j].kind = "set"
        /\ clog[j].query_text = clog[i].query_text
        /\ clog[i].at < clog[j].at + CacheTtlTicks

\* C12: with a cache configured, query calls the embedding provider if and
\* only if the cache holds no unexpired entry for exactly that query text;
\* on a miss the vector the provider returns is stored, so a later query
\* with the same text before the entry's TTL elapses makes no provider call.
C12_ProviderCalledIffNoUnexpiredEntry ==
    /\ \A i \in 1..Len(clog) :
          clog[i].kind = "get" =>
             (clog[i].provider_called <=> ~HoldsUnexpired(i))
    /\ \A j \in 1..Len(clog) :
          clog[j].kind = "set" =>
             \A i \in (j + 1)..Len(clog) :
                (/\ clog[i].kind = "get"
                 /\ clog[i].query_text = clog[j].query_text
                 /\ clog[i].at < clog[j].at + CacheTtlTicks)
                => ~clog[i].provider_called
    /\ Len(clog) >= 1 /\ clog[Len(clog)].kind = "set" =>
          LET e == clog[Len(clog)]
          IN  cstore[e.query_text].embedding = e.embedding

\* C12 witness: a miss was stored, a second query with the same text hit it
\* before the TTL elapsed, and a third one missed after the entry expired.
C12_Witness ==
    \E i, j, k \in 1..Len(clog) :
        /\ i < j /\ j < k
        /\ clog[i].kind = "set"
        /\ clog[j].kind = "get" /\ clog[k].kind = "get"
        /\ clog[j].query_text = clog[i].query_text
        /\ clog[k].query_text = clog[i].query_text
        /\ ~clog[j].provider_called
        /\ clog[k].provider_called
        /\ clog[k].at = clog[i].at + CacheTtlTicks

-----------------------------------------------------------------------------
(* Rate limiter: the claims.                                               *)

\* the calls by user u that were allowed at a time in [a, a + W), a in ticks
AllowedIn(u, a) ==
    {i \in 1..Len(llog) :
        /\ llog[i].user_id = u
        /\ llog[i].allowed
        /\ a <= llog[i].at
        /\ llog[i].at < a + lcfg.window_seconds * TicksPerSec}

\* C13: for every user, limit L and window W, within any window of W
\* seconds (from a, up to but not including a + W) is_allowed returns allow
\* at most L times for that user, whatever calls the other users make.
C13_AtMostLimitPerWindow ==
    \A u \in UserIds, a \in 0..MaxLimiterClock :
        Cardinality(AllowedIn(u, a)) <= lcfg.limit

\* C13 witness: a user was allowed L = 2 times within one window, was denied
\* the third call in that window, and was allowed again once the window had
\* passed, while the other user was allowed in between.
C13_Witness ==
    /\ lcfg.limit = 2
    /\ \E i, j, k, m, o \in 1..Len(llog) :
          /\ i < j /\ j < k /\ k < m
          /\ llog[i].user_id = "u1" /\ llog[j].user_id = "u1"
          /\ llog[k].user_id = "u1" /\ llog[m].user_id = "u1"
          /\ llog[o].user_id = "u2" /\ llog[o].allowed
          /\ llog[i].allowed /\ llog[j].allowed
          /\ ~llog[k].allowed
          /\ llog[k].at < llog[i].at + lcfg.window_seconds * TicksPerSec
          /\ llog[m].allowed

-----------------------------------------------------------------------------
(* PDF extraction: the claims.                                             *)

\* C14: when no tier is forced, the tier attempted first is the recommended
\* tier if that tier is enabled and otherwise an enabled tier; a disabled
\* tier is never selected while at least one tier is enabled.
C14_SelectedTierIsEnabled ==
    ppc = "selected" =>
        /\ pcfg.enabled[precommended] => ptarget = precommended
        /\ (\E t \in Tiers : pcfg.enabled[t]) => pcfg.enabled[ptarget]

\* the attempts after the first one
FallbackAttempts == SubSeq(pattempts, 2, Len(pattempts))

\* C15: with auto_fallback on, when the first-attempted tier fails, each
\* remaining enabled tier is attempted exactly once in ascending tier order
\* until one succeeds; all_tiers_failed is raised if and only if the first
\* tier and every remaining enabled tier failed.
C15_FallbackInAscendingOrder ==
    (/\ ppc = "done"
     /\ pcfg.auto_fallback
     /\ Len(pattempts) >= 1
     /\ ~pattempts[1].ok)
    => LET remaining == {t \in Tiers : pcfg.enabled[t] /\ t # pattempts[1].tier}
           tried == {FallbackAttempts[i].tier : i \in 1..Len(FallbackAttempts)}
       IN  /\ tried \subseteq remaining
           /\ \A i, j \in 1..Len(FallbackAttempts) :
                 i < j => FallbackAttempts[i].tier < FallbackAttempts[j].tier
           /\ \A t \in remaining : \A u \in tried : t < u => t \in tried
           /\ \A i \in 1..Len(FallbackAttempts) :
                 FallbackAttempts[i].ok <=>
                    (i = Len(FallbackAttempts) /\ pres.kind = "returned")
           /\ pres.kind = "returned" =>
                 /\ Len(FallbackAttempts) >= 1
                 /\ pres.tier_used = pattempts[Len(pattempts)].tier
                 /\ pres.fallback_attempted
           /\ (pres.kind = "raised" /\ pres.error_type = "all_tiers_failed")
                 <=> (/\ tried = remaining
                      /\ \A i \in 1..Len(pattempts) : ~pattempts[i].ok)
           /\ pres.kind \in {"returned", "raised"}
           /\ pres.kind = "raised" => pres.error_type = "all_tiers_failed"

\* C15 witness: tier 2 failed first, tier 1 failed next and tier 4 then
\* succeeded, tier 3 being disabled.
C15_Witness ==
    /\ ppc = "done"
    /\ pcfg.auto_fallback
    /\ ~pcfg.enabled[3]
    /\ Len(pattempts) = 3
    /\ pattempts[1] = [tier |-> 2, ok |-> FALSE]
    /\ pattempts[2] = [tier |-> 1, ok |-> FALSE]
    /\ pattempts[3] = [tier |-> 4, ok |-> TRUE]
    /\ pres.kind = "returned"

-----------------------------------------------------------------------------
(* Vector store: the claims.                                               *)

\* the chunks of the call whose content an embedding in the store had when
\* the call was made
DuplicateChunks ==
    {i \in 1..Len(ecall.chunks) :
        ecall.chunks[i].content \in ecall.contents_at_call}

\* C16: with skip_duplicate_content on, every chunk passed to
\* embed_and_store whose content equals the content of an embedding already
\* in the store is marked is_duplicate, is not sent to the provider and is
\* not stored, and duplicates_skipped is the number of such chunks.
C16_DuplicatesSkipped ==
    (ecall.returned /\ ecall.skip_duplicate_content) =>
        /\ \A i \in DuplicateChunks :
              /\ ecall.chunks[i].is_duplicate
              /\ \A k \in 1..Len(ecall.inputs) : ecall.inputs[k] # i
              /\ i \notin ecall.stored
        /\ ecall.duplicates_skipped = Cardinality(DuplicateChunks)

\* C16 witness: a call with skip_duplicate_content on passed two chunks, one
\* with stored content and one without; the second was embedded and stored.
C16_Witness ==
    /\ ecall.returned /\ ecall.skip_duplicate_content
    /\ ecall.pc = "idle"
    /\ Len(ecall.chunks) = 2
    /\ DuplicateChunks = {1}
    /\ ecall.stored = {2}
    /\ Len(vstore) = 2
    /\ vstore[2].chunk_id = 2

\* C17: in every reachable state of the vector store there is at most one
\* stored Embedding for each chunk_id.
C17_OneEmbeddingPerChunk ==
    \A i, j \in 1..Len(vstore) :
        vstore[i].chunk_id = vstore[j].chunk_id => i = j

\* the dot product of two vectors of one dimension
Dot(a, b) ==
    LET S[i \in 0..Len(a)] == IF i = 0 THEN 0 ELSE S[i - 1] + a[i] * b[i]
    IN  S[Len(a)]

\* a has a cosine similarity to q, and it is above 0
CosinePositive(q, a) ==
    Len(a) = Len(q) /\ Dot(q, a) > 0

\* for a and b of positive cosine similarity to q: cos(q, a) >= cos(q, b)
CosineAtLeast(q, a, b) ==
    Dot(q, a) * Dot(q, a) * Dot(b, b) >= Dot(q, b) * Dot(q, b) * Dot(a, a)

\* C18: for every store state, query vector, top_k and filters,
\* search_by_similarity returns at most top_k embeddings, ordered by
\* non-increasing cosine similarity to the query, each matching every
\* key/value in filters and each with similarity strictly greater than 0.
C18_SearchResults ==
    sres.searched =>
        LET r == sres.results
        IN  /\ Len(r) <= sres.top_k
            /\ \A i \in 1..Len(r) :
                  /\ \E k \in 1..Len(vstore) : vstore[k] = r[i]
                  /\ CosinePositive(sres.embedding, r[i].embedding)
                  /\ sres.filters.source # None =>
                        r[i].metadata.source = sres.filters.source
                  /\ sres.filters.lang # None =>
                        r[i].metadata.lang = sres.filters.lang
            /\ \A i \in 1..(Len(r) - 1) :
                  CosineAtLeast(sres.embedding, r[i].embedding,
                                r[i + 1].embedding)

\* C18 witness: a search with top_k = 1 and a filter on both keys against a
\* store of two matching embeddings of different positive similarity
\* returned the closer one, which was stored second.
C18_Witness ==
    /\ sres.searched
    /\ sres.top_k = 1
    /\ sres.filters = [source |-> "a", lang |-> "en"]
    /\ Len(vstore) = 2
    /\ vstore[1].metadata = sres.filters /\ vstore[2].metadata = sres.filters
    /\ CosinePositive(sres.embedding, vstore[1].embedding)
    /\ CosinePositive(sres.embedding, vstore[2].embedding)
    /\ ~CosineAtLeast(sres.embedding, vstore[1].embedding, vstore[2].embedding)
    /\ sres.results = <<vstore[2]>>

-----------------------------------------------------------------------------
(* Prompt assembly: the claims.                                            *)

\* the k of the [Source k] markers present in the user message
MarkersPresent ==
    {presp.user_message[i + 1].n : i \in
        {i \in 1..(Len(presp.user_message) - 1) :
            /\ presp.user_message[i].w = "[Source"
            /\ presp.user_message[i + 1].w = "N],"}}

\* C19: for every prompt built by construct_prompt the keys of citation_map
\* are exactly 1..N with no gaps, and the set of [Source k] markers present
\* in user_message is exactly that set of keys, for every token budget.
C19_KeysDenseAndMatchMarkers ==
    presp.built =>
        /\ DOMAIN presp.citation_map =
              1..Cardinality(DOMAIN presp.citation_map)
        /\ MarkersPresent = DOMAIN presp.citation_map

\* the marker the j-th word of the user message stands under (0: none)
MarkerAbove(j) ==
    LET above == {i \in 1..(j - 1) : presp.user_message[i].w = "N],"}
    IN  IF above = {} THEN 0
        ELSE presp.user_message[CHOOSE i \in above :
                                   \A k \in above : k <= i].n

\* C20: for every key N of citation_map, citation_map[N].chunk_id is the
\* chunk whose content was emitted under the [Source N] marker, for any
\* order in which the retrieved chunks are passed to construct_prompt.
C20_CitationNamesEmittedChunk ==
    presp.built =>
        \A j \in 1..Len(presp.user_message) :
            (/\ presp.user_message[j].w = "content"
             /\ MarkerAbove(j) \in DOMAIN presp.citation_map)
            => presp.citation_map[MarkerAbove(j)] = presp.user_message[j].n

-----------------------------------------------------------------------------
(* Answer post-processing: the claims.                                     *)

\* "[Source N]" occurs in the answer, for N below ten
SourceOccurs(N) ==
    \E i \in 1..Len(ares.answer_text) : ares.answer_text[i] = <<N>>

CitationFor(N) ==
    \E i \in 1..Len(ares.citations) : ares.citations[i].source_index = N

WarningFor(N) ==
    \E i \in 1..Len(ares.warnings) : ares.warnings[i].index = N

\* C21: for every N >= 1 whose [Source N] occurs in the returned answer,
\* exactly one holds: N is a key of citation_map and a citation with
\* source_index N is returned, or a warning naming N is produced; and no
\* citation is returned for an N that is not a key of citation_map.
C21_CitationOrWarning ==
    ares.processed =>
        /\ \A N \in 1..MaxSource :
              SourceOccurs(N) =>
                  ((N \in DOMAIN areq.citation_map /\ CitationFor(N))
                   # WarningFor(N))
        /\ \A i \in 1..Len(ares.citations) :
              ares.citations[i].source_index \in DOMAIN areq.citation_map

C21_Witness ==
    /\ ares.processed
    /\ \E N, M \in 1..MaxSource :
          /\ SourceOccurs(N) /\ SourceOccurs(M)
          /\ N \in DOMAIN areq.citation_map /\ CitationFor(N)
          /\ M \notin DOMAIN areq.citation_map /\ WarningFor(M)

-----------------------------------------------------------------------------
(* Debug artifacts: the claims.                                            *)

IsPrefix(s, t) == Len(s) <= Len(t) /\ s = SubSeq(t, 1, Len(s))

\* C22: for any trace_id, get_by_trace_id returns that trace's artifacts in
\* the order in which they were logged, although each artifact is stored by
\* a separately scheduled task.
C22_ReturnedInLoggedOrder ==
    /\ \A t \in TraceIds :
          IsPrefix(get_by_trace_id(artifacts, t), alogged[t])
    /\ dres.status = 200 => IsPrefix(dres.artifacts, alogged[dres.trace_id])

C22_Witness ==
    /\ dres.status = 200
    /\ Len(dres.artifacts) = Len(ArtifactTypes)
    /\ \A i \in 1..Len(ArtifactTypes) :
          dres.artifacts[i] = [type |-> ArtifactTypes[i], query |-> 1]

\* the request's Authorization header is exactly the configured bearer token
TokenMatches == dres.auth_header = bearer(acfg.token)

DebugDisabled ==
    \/ acfg.environment # "prod" /\ ~acfg.enabled
    \/ acfg.environment = "prod" /\ acfg.token = ""

\* C23 as stated: no artifacts are returned when debug is disabled or the
\* configured token is not presented, and a request that does not present
\* the configured token is answered 403.
C23_NoArtifactsAndForbidden ==
    dres.status # 0 =>
        /\ DebugDisabled => dres.status # 200
        /\ (acfg.token # "" /\ ~TokenMatches) => dres.status = 403

\* C23, amended: no artifacts are returned when debug is disabled or the
\* configured token is not presented; a request that does not present the
\* configured token is answered 403 when debug mode is on and 404 when it
\* is off.
C23_NoArtifactsAndForbiddenWhenOn ==
    dres.status # 0 =>
        /\ DebugDisabled => dres.status # 200
        /\ (acfg.token # "" /\ ~TokenMatches) =>
               dres.status = (IF acfg.enabled THEN 403 ELSE 404)

C23_Witness ==
    /\ dres.status = 403
    /\ acfg.environment = "prod"
    /\ dres.auth_header = "s3cret"
    /\ artifacts[dres.trace_id] # <<>>

-----------------------------------------------------------------------------
(* Query errors: the claims.                                               *)

\* C24: a QueryTimeoutError or ValidationError raised while serving a query
\* is never passed through the generation error mapping: it reaches the
\* client as 408 timeout or 422 validation, never as 503 or 400.
C24_TimeoutAndValidationBypassMapping ==
    epc = "responded" =>
        /\ eraised.class = "QueryTimeoutError" =>
               /\ ~eresp.mapped
               /\ eresp.status = 408 /\ eresp.error_type = "timeout"
        /\ eraised.class = "ValidationError" =>
               /\ ~eresp.mapped
               /\ eresp.status = 422 /\ eresp.error_type = "validation"

C24_Witness ==
    /\ epc = "responded"
    /\ eraised = [class |-> "QueryTimeoutError", stage |-> 3]
    /\ eresp.status = 408

-----------------------------------------------------------------------------
(* Sliding-window chunking: the claims.                                    *)

\* the first k and the last k characters of a text (all of it when shorter)
prefix(text, k) == SubSeq(text, 1, Min(k, Len(text)))

suffix(text, k) == SubSeq(text, Len(text) - Min(k, Len(text)) + 1, Len(text))

\* C25: for every text, chunk_size and overlap k with 0 <= k < chunk_size,
\* every pair of consecutive chunks returned by the sliding-window chunker
\* satisfies: the first k characters of the next chunk equal the last k
\* characters of the current chunk.
C25_AdjacentChunksOverlap ==
    (kres.returned /\ 0 <= kreq.overlap /\ kreq.overlap < kreq.chunk_size) =>
        \A i \in 1..(Len(kres.chunks) - 1) :
            prefix(kres.chunks[i + 1].content, kreq.overlap)
                = suffix(kres.chunks[i].content, kreq.overlap)

-----------------------------------------------------------------------------
(* Ingestion: the claims on metrics and timestamps.                        *)

\* C26: whenever one of the four ingestion stages (extraction, chunking,
\* storage, embedding) completes successfully for a job, the job's metrics
\* contain <stage>_duration_ms for that stage from then on.
C26_CompletedStageHasDuration ==
    \A s \in StageNames :
        (stage_result[s] = "ok" /\ run.job_id \in DOMAIN jobs)
            => DurationKey(s) \in jobs[run.job_id].metrics

\* C27: in every reachable state of a job, status in {processing, completed,
\* failed} implies started_at is set, and status in {completed, failed}
\* implies completed_at is set.
C27_TimestampsSet ==
    \A j \in DOMAIN jobs :
        /\ jobs[j].status \in {"processing", "completed", "failed"}
               => jobs[j].started_at # None
        /\ jobs[j].status \in {"completed", "failed"}
               => jobs[j].completed_at # None

-----------------------------------------------------------------------------
(* Vector store: the claim on duplicate content.                           *)

\* C28: when every write to the vector store goes through embed_and_store
\* with skip_duplicate_content on, the store never contains two embeddings
\* with identical content, whether the equal-content chunks arrive in the
\* same call, in successive calls or in interleaved calls.
C28_NoTwoEmbeddingsOfOneContent ==
    \A i, j \in 1..Len(vstore) :
        vstore[i].content = vstore[j].content => i = j

-----------------------------------------------------------------------------
(* Serving /api/query: the claim.                                          *)

\* the chunk ids a sequence of ids lists
Listed(ids) == {ids[i] : i \in 1..Len(ids)}

\* C29: in every successful /api/query response produced through the
\* generation orchestrator, each chunk_id listed in citations or used_chunks
\* also appears in that response's retrieved_chunks, even when ingestion
\* requests change the vector store while the query is being served.
C29_CitedChunksAreRetrieved ==
    qresponse.returned =>
        Listed(qresponse.citations) \cup Listed(qresponse.used_chunks)
            \subseteq Listed(qresponse.retrieved_chunks)

-----------------------------------------------------------------------------
(* Rate limiter: the retry_after claim.                                    *)

\* call j is the first call by the user of call i after call i
NextCallBySameUser(i, j) ==
    /\ i < j
    /\ llog[j].user_id = llog[i].user_id
    /\ \A k \in (i + 1)..(j - 1) : llog[k].user_id # llog[i].user_id

\* call i was denied with a retry_after_seconds
DeniedWithRetryAfter(i) ==
    ~llog[i].allowed /\ ~llog[i].raised

\* C30: after is_allowed denies user u with retry_after_seconds = r
\* (limit >= 1), a call by u with the same limit and window made at least r
\* seconds later, with no other call by u in between, is allowed.
C30_AllowedAfterRetryAfter ==
    lcfg.limit >= 1 =>
        \A i, j \in 1..Len(llog) :
            (/\ DeniedWithRetryAfter(i)
             /\ NextCallBySameUser(i, j)
             /\ llog[j].at - llog[i].at >= llog[i].retry_after * TicksPerSec)
            => llog[j].allowed

\* C30 witness: a user was denied less than a second before the oldest
\* request left the window, so that retry_after_seconds is the added second
\* alone, and the user's next call, made exactly that long after, was
\* allowed while the other user called in between.
C30_Witness ==
    /\ lcfg.limit >= 1
    /\ \E i, j, k \in 1..Len(llog) :
          /\ DeniedWithRetryAfter(i)
          /\ llog[i].retry_after = 1
          /\ NextCallBySameUser(i, j)
          /\ i < k /\ k < j
          /\ llog[j].at - llog[i].at = llog[i].retry_after * TicksPerSec
          /\ llog[j].allowed

====
